---- MODULE Spec2Model ----
(***************************************************************************)
(* ts-enum-util: lookup, validation and conversion over enum-like          *)
(* mappings (src/src/enums.ts).                                            *)
(*                                                                         *)
(* JavaScript values are records [t, s, n]: t is the kind of value, s the  *)
(* characters of a string (a sequence of one-character strings) and n the  *)
(* number, the truth value (1/0) of a boolean or the identity of an        *)
(* object.  An object passed as the enum object is a record                *)
(* [t, own, sym, inh]: its own enumerable string-keyed properties in       *)
(* key-iteration order, the values of its symbol-keyed properties and the  *)
(* enumerable properties it inherits from its prototype.                   *)
(***************************************************************************)
EXTENDS Integers, Sequences, FiniteSets, TLC

VARIABLES enumObj, call, result

vars == <<enumObj, call, result>>

(***************************************************************************)
(* Bounds of the model.                                                    *)
(***************************************************************************)
\* largest number of own properties the enum object is given
MaxKeys == 2
\* numbers used as values and inputs are 1..MaxNum
MaxNum == 1

(***************************************************************************)
(* JavaScript values.                                                      *)
(***************************************************************************)
Str(chars) == [t |-> "string", s |-> chars, n |-> 0]
Num(k) == [t |-> "number", s |-> <<>>, n |-> k]
NaN == [t |-> "NaN", s |-> <<>>, n |-> 0]
Undefined == [t |-> "undefined", s |-> <<>>, n |-> 0]
Null == [t |-> "null", s |-> <<>>, n |-> 0]
Bool(b) == [t |-> "boolean", s |-> <<>>, n |-> IF b THEN 1 ELSE 0]
\* a plain object {} (String(v) is "[object Object]"); n is its identity
PlainObject(id) == [t |-> "object", s |-> <<>>, n |-> id]
\* an object that cannot be converted to a string, such as Object.create(null)
BareObject(id) == [t |-> "bareobject", s |-> <<>>, n |-> id]
\* a function value, such as () => {}
Function(id) == [t |-> "function", s |-> <<>>, n |-> id]
\* an empty array []
EmptyArray(id) == [t |-> "array", s |-> <<>>, n |-> id]

\* typeof v
TypeOf(v) ==
  CASE v.t = "NaN" -> "number"
    [] v.t \in {"null", "bareobject", "array"} -> "object"
    [] OTHER -> v.t

\* a variant under which NaN equals itself, as Object.is has it
StrictEquals_SameValue(a, b) == a = b

\* a === b (NaN equals nothing; objects are equal when they are the same object)
StrictEquals(a, b) == a.t # "NaN" /\ a = b

\* v == null
IsNullish(v) == v.t \in {"null", "undefined"}

(***************************************************************************)
(* Strings: toLowerCase, trim, Number(string) and String(value).           *)
(***************************************************************************)
UpperLetters ==
  <<"A", "B", "C", "D", "E", "F", "G", "H", "I", "J", "K", "L", "M",
    "N", "O", "P", "Q", "R", "S", "T", "U", "V", "W", "X", "Y", "Z">>
LowerLetters ==
  <<"a", "b", "c", "d", "e", "f", "g", "h", "i", "j", "k", "l", "m",
    "n", "o", "p", "q", "r", "s", "t", "u", "v", "w", "x", "y", "z">>
DecimalDigits == <<"0", "1", "2", "3", "4", "5", "6", "7", "8", "9">>

LowerChar(c) ==
  IF \E i \in DOMAIN UpperLetters : UpperLetters[i] = c
  THEN LowerLetters[CHOOSE i \in DOMAIN UpperLetters : UpperLetters[i] = c]
  ELSE c

\* String.prototype.toLowerCase
ToLowerCase(chars) == [i \in 1..Len(chars) |-> LowerChar(chars[i])]

RECURSIVE TrimStart(_)
TrimStart(chars) ==
  IF chars # <<>> /\ Head(chars) = " " THEN TrimStart(Tail(chars)) ELSE chars

RECURSIVE TrimEnd(_)
TrimEnd(chars) ==
  IF chars # <<>> /\ chars[Len(chars)] = " "
  THEN TrimEnd(SubSeq(chars, 1, Len(chars) - 1))
  ELSE chars

\* String.prototype.trim
Trim(chars) == TrimEnd(TrimStart(chars))

IsDigit(c) == \E i \in DOMAIN DecimalDigits : DecimalDigits[i] = c
DigitValue(c) == (CHOOSE i \in DOMAIN DecimalDigits : DecimalDigits[i] = c) - 1

RECURSIVE DigitsValue(_)
DigitsValue(chars) ==
  IF chars = <<>> THEN 0
  ELSE 10 * DigitsValue(SubSeq(chars, 1, Len(chars) - 1)) + DigitValue(chars[Len(chars)])

\* the position of the first "." in chars, or 0
DecimalPoint(chars) ==
  IF \E i \in 1..Len(chars) : chars[i] = "."
  THEN CHOOSE i \in 1..Len(chars) :
         chars[i] = "." /\ \A j \in 1..(i - 1) : chars[j] # "."
  ELSE 0

\* Number(chars): white space around the numeral is skipped and the empty numeral
\* is 0; a numeral is a string of decimal digits, or digits with a fraction of
\* zeros; everything else is NaN (the strings of the model hold no sign, no
\* exponent, no radix prefix and no fraction other than zeros)
StringToNumber(chars) ==
  LET numeral == Trim(chars)
      point == DecimalPoint(numeral)
      whole == SubSeq(numeral, 1, point - 1)
      fraction == SubSeq(numeral, point + 1, Len(numeral))
  IN  IF \A i \in 1..Len(numeral) : IsDigit(numeral[i])
      THEN Num(DigitsValue(numeral))
      ELSE IF /\ point > 0
              /\ Len(numeral) > 1
              /\ \A i \in 1..Len(whole) : IsDigit(whole[i])
              /\ \A i \in 1..Len(fraction) : fraction[i] = "0"
      THEN Num(DigitsValue(whole))
      ELSE NaN

RECURSIVE NumberToString(_)
NumberToString(k) ==
  IF k < 0 THEN <<"-">> \o NumberToString(-k)
  ELSE IF k < 10 THEN <<DecimalDigits[k + 1]>>
  ELSE NumberToString(k \div 10) \o <<DecimalDigits[(k % 10) + 1]>>

\* what is thrown is a sequence of text fragments, the message when they are joined;
\* <<>> stands for nothing thrown
TypeErrorMessage == <<"TypeError: Cannot convert object to primitive value">>

\* String(v), also the conversion a template literal applies: the characters, or
\* the TypeError thrown for an object that has no string form
StringOf(v) ==
  CASE v.t = "string" -> [thrown |-> <<>>, s |-> v.s]
    [] v.t = "number" -> [thrown |-> <<>>, s |-> NumberToString(v.n)]
    [] v.t = "NaN" -> [thrown |-> <<>>, s |-> <<"N", "a", "N">>]
    [] v.t = "undefined" ->
         [thrown |-> <<>>, s |-> <<"u", "n", "d", "e", "f", "i", "n", "e", "d">>]
    [] v.t = "null" -> [thrown |-> <<>>, s |-> <<"n", "u", "l", "l">>]
    [] v.t = "boolean" ->
         [thrown |-> <<>>,
          s |-> IF v.n = 1 THEN <<"t", "r", "u", "e">> ELSE <<"f", "a", "l", "s", "e">>]
    [] v.t = "object" ->
         [thrown |-> <<>>,
          s |-> <<"[", "o", "b", "j", "e", "c", "t", " ",
                  "O", "b", "j", "e", "c", "t", "]">>]
    [] v.t = "function" ->
         [thrown |-> <<>>, s |-> <<"(", ")", " ", "=", ">", " ", "{", "}">>]
    [] v.t = "array" -> [thrown |-> <<>>, s |-> <<>>]
    [] OTHER -> [thrown |-> TypeErrorMessage, s |-> <<>>]

(***************************************************************************)
(* The options bundle and the caller's hooks.                              *)
(***************************************************************************)
\* the hooks a caller supplies; "none" is an absent field
Normalizers == {"none", "trim", "throws"}
Converters == {"none", "constant", "throws"}
\* converters that double a number: whatever they are given, or strings only
DoublingConverters == {"double", "doubleStrings"}
\* hooks that change the type or the case of what they are given
TypeChangingNormalizers == {"stringify", "numberify"}
CaseConverters == {"upper", "upperA"}

\* equalFn() and equalFn(undefined): no options bundle
NoOptions ==
  [given |-> FALSE, normalize |-> "none", ignoreCase |-> FALSE,
   convert |-> FALSE, converter |-> "none"]

OptionBundles ==
  [given : {TRUE}, normalize : Normalizers, ignoreCase : BOOLEAN,
   convert : BOOLEAN, converter : Converters]

Options == {NoOptions} \union OptionBundles

\* the bundles the predicate is built from when it is called on its own
HookBundles ==
  [given : {TRUE}, normalize : {"none", "trim"} \union TypeChangingNormalizers,
   ignoreCase : BOOLEAN, convert : BOOLEAN,
   converter : {"none", "constant"} \union CaseConverters]

PredicateOptions == Options \union HookBundles

\* the value every call of the constant converter returns
ConstantConverted == 123

NormalizeErrorMessage == <<"Normalize error">>
ConverterErrorMessage == <<"Converter error">>

\* a step of the predicate: the value produced, or the message thrown
Produced(v) == [thrown |-> <<>>, v |-> v]
Thrown(msg) == [thrown |-> msg, v |-> Undefined]

\* normalize = (value) => (typeof value === 'string' ? value.trim() : value)
TrimNormalize(v) == IF TypeOf(v) = "string" THEN Str(Trim(v.s)) ELSE v

\* Number(v): the number a value converts to, or the TypeError thrown for an
\* object that has no primitive form
NumberOf(v) ==
  CASE v.t = "string" -> Produced(StringToNumber(v.s))
    [] v.t \in {"number", "NaN"} -> Produced(v)
    [] v.t = "boolean" -> Produced(Num(v.n))
    [] v.t \in {"null", "array"} -> Produced(Num(0))
    [] v.t = "bareobject" -> Thrown(TypeErrorMessage)
    [] OTHER -> Produced(NaN)

\* String.prototype.toUpperCase
UpperChar(c) ==
  IF \E i \in DOMAIN LowerLetters : LowerLetters[i] = c
  THEN UpperLetters[CHOOSE i \in DOMAIN LowerLetters : LowerLetters[i] = c]
  ELSE c

ToUpperCase(chars) == [i \in 1..Len(chars) |-> UpperChar(chars[i])]

\* normalize = (value) => String(value): every operand becomes a string
StringifyNormalize(v) ==
  IF StringOf(v).thrown # <<>> THEN Thrown(StringOf(v).thrown)
  ELSE Produced(Str(StringOf(v).s))

\* the caller's normalize hook applied to v
CallNormalize(name, v) ==
  CASE name = "trim" -> Produced(TrimNormalize(v))
    [] name = "throws" -> Thrown(NormalizeErrorMessage)
    [] name = "stringify" -> StringifyNormalize(v)
    [] name = "numberify" -> NumberOf(v)

\* k * 2 for a number k
Doubled(k) == IF k.t = "NaN" THEN NaN ELSE Num(2 * k.n)

\* converter = (s) => Number(s) * 2
DoublingConverter(v) ==
  IF NumberOf(v).thrown # <<>> THEN NumberOf(v) ELSE Produced(Doubled(NumberOf(v).v))

\* customNumConverter: a string is parsed and doubled (undefined when it is no
\* number), a number is returned as it is, anything else gives undefined
StringDoublingConverter(v) ==
  IF TypeOf(v) = "string"
  THEN IF StringToNumber(v.s).t = "NaN" THEN Produced(Undefined)
       ELSE Produced(Doubled(StringToNumber(v.s)))
  ELSE IF TypeOf(v) = "number" THEN Produced(v)
  ELSE Produced(Undefined)

\* converter = (value) => (typeof value === 'string' ? value.toUpperCase() : undefined)
UpperCaseConverter(v) ==
  IF TypeOf(v) = "string" THEN Produced(Str(ToUpperCase(v.s))) ELSE Produced(Undefined)

\* converter = (value) => (typeof value === 'number' ? 'A' : value): the string it
\* returns for a number differs from the string 'a' in case only
NumbersToUpperA(v) ==
  IF TypeOf(v) = "number" THEN Produced(Str(<<"A">>)) ELSE Produced(v)

\* the caller's converter hook applied to v
CallConverter(name, v) ==
  CASE name = "constant" -> Produced(Num(ConstantConverted))
    [] name = "throws" -> Thrown(ConverterErrorMessage)
    [] name = "double" -> DoublingConverter(v)
    [] name = "doubleStrings" -> StringDoublingConverter(v)
    [] name = "upper" -> UpperCaseConverter(v)
    [] name = "upperA" -> NumbersToUpperA(v)

(***************************************************************************)
(* The equality engine.                                                    *)
(***************************************************************************)
\* toNumber(value)
toNumber(value) ==
  IF TypeOf(value) = "number" THEN (IF value.t = "NaN" THEN Undefined ELSE value)
  ELSE IF TypeOf(value) = "string"
  THEN LET trimmed == Trim(value.s)
           converted == StringToNumber(trimmed)
       IN  IF Len(trimmed) > 0 /\ converted.t # "NaN" THEN converted ELSE Undefined
  ELSE Undefined

passthrough(value) == value

\* a variant that leaves the case of a string as it is
lowerCaseIfString_Identity(value) == value

lowerCaseIfString(value) ==
  IF TypeOf(value) = "string" THEN Str(ToLowerCase(value.s)) ELSE value

\* a variant that converts nothing
defaultConverter_Identity(value, toType) == Produced(value)

\* defaultConverter(value, toType)
defaultConverter(value, toType) ==
  IF toType = "string" /\ TypeOf(value) # "string"
  THEN LET str == StringOf(value)
       IN  IF str.thrown # <<>> THEN Thrown(str.thrown) ELSE Produced(Str(str.s))
  ELSE IF toType = "number" /\ TypeOf(value) # "number"
  THEN Produced(toNumber(value))
  ELSE Produced(value)

\* a variant that takes no notice of the custom converter
createConverter_DefaultOnly(toType, customConverter, value) ==
  defaultConverter(value, toType)

\* createConverter(toType, customConverter)(value)
createConverter(toType, customConverter, value) ==
  IF customConverter # "none"
  THEN CallConverter(customConverter, value)
  ELSE defaultConverter(value, toType)

\* options?.normalize ?? passthrough, applied to value
normalizeOf(options, value) ==
  IF options.given /\ options.normalize # "none"
  THEN CallNormalize(options.normalize, value)
  ELSE Produced(passthrough(value))

\* a variant that folds case whether or not ignoreCase is set
lowerCaseOf_Always(options, value) == lowerCaseIfString(value)

\* options?.ignoreCase ? lowerCaseIfString : passthrough, applied to value
lowerCaseOf(options, value) ==
  IF options.given /\ options.ignoreCase
  THEN lowerCaseIfString(value)
  ELSE passthrough(value)

\* a variant that applies a custom converter also when convert is not set
convertOf_ConverterAlone(options, expectedType, value) ==
  IF options.given /\ (options.convert \/ options.converter # "none")
  THEN createConverter(expectedType, options.converter, value)
  ELSE Produced(passthrough(value))

\* options?.convert ? createConverter(expectedType, options.converter) : passthrough,
\* applied to value
convertOf(options, expectedType, value) ==
  IF options.given /\ options.convert
  THEN createConverter(expectedType, options.converter, value)
  ELSE Produced(passthrough(value))

\* whether the predicate calls the caller's normalize / converter hook
HasNormalize(options) == options.given /\ options.normalize # "none"
UsesConverter(options) ==
  options.given /\ options.convert /\ options.converter # "none"

\* the outcome of one application of the predicate: the message thrown (<<>> when it
\* returns), the boolean returned, and how often each hook was called
Outcome(thrown, eq, nc, cc) == [thrown |-> thrown, eq |-> eq, nc |-> nc, cc |-> cc]

\* compareConverted with the case folding applied whatever the expected type
compareConverted_FoldsAlways(options, expectedType, a2, b2) ==
  LET n == IF HasNormalize(options) THEN 1 ELSE 0
      c == IF UsesConverter(options) THEN 1 ELSE 0
  IN  IF a2.thrown # <<>> THEN Outcome(a2.thrown, FALSE, 2 * n, c)
      ELSE IF b2.thrown # <<>> THEN Outcome(b2.thrown, FALSE, 2 * n, 2 * c)
      ELSE Outcome(<<>>,
                   StrictEquals(lowerCaseOf(options, a2.v), lowerCaseOf(options, b2.v)),
                   2 * n, 2 * c)

\* the tail of the predicate once both operands are converted: the case folding
\* of string operands and the strict comparison
compareConverted(options, expectedType, a2, b2) ==
  LET n == IF HasNormalize(options) THEN 1 ELSE 0
      c == IF UsesConverter(options) THEN 1 ELSE 0
  IN  IF a2.thrown # <<>> THEN Outcome(a2.thrown, FALSE, 2 * n, c)
      ELSE IF b2.thrown # <<>> THEN Outcome(b2.thrown, FALSE, 2 * n, 2 * c)
      ELSE IF expectedType # "string"
      THEN Outcome(<<>>, StrictEquals(a2.v, b2.v), 2 * n, 2 * c)
      ELSE Outcome(<<>>,
                   StrictEquals(lowerCaseOf(options, a2.v), lowerCaseOf(options, b2.v)),
                   2 * n, 2 * c)

\* the tail of the predicate once both operands are normalized: the conversion
\* of each to the expected type
compareNormalized(options, expectedType, a1, b1) ==
  LET n == IF HasNormalize(options) THEN 1 ELSE 0
  IN  IF a1.thrown # <<>> THEN Outcome(a1.thrown, FALSE, n, 0)
      ELSE IF b1.thrown # <<>> THEN Outcome(b1.thrown, FALSE, 2 * n, 0)
      ELSE compareConverted(options, expectedType,
                            convertOf(options, expectedType, a1.v),
                            convertOf(options, expectedType, b1.v))

\* a variant whose converter is handed the operands as passed, not as normalized
equalFn_ConvertsRawOperands(options, a, b) ==
  compareNormalized(options, IF TypeOf(a) = "string" THEN "string" ELSE "number",
                    Produced(a), Produced(b))

\* equalFn(options)(a, b): a is the key or value of the enum, b the input; the
\* expected type is taken from a as it is passed, before it is normalized
equalFn(options, a, b) ==
  compareNormalized(options, IF TypeOf(a) = "string" THEN "string" ELSE "number",
                    normalizeOf(options, a), normalizeOf(options, b))

(***************************************************************************)
(* Objects: own, symbol-keyed and inherited properties.                    *)
(***************************************************************************)
\* an object with the given own enumerable string-keyed properties
ObjectOf(own) == [ref |-> PlainObject(0), own |-> own, sym |-> <<>>, inh |-> <<>>]
\* a value that is no object, passed where the enum object is expected
NonObject(v) == [ref |-> v, own |-> <<>>, sym |-> <<>>, inh |-> <<>>]

\* !!v
Truthy(v) ==
  CASE v.t \in {"undefined", "null", "NaN"} -> FALSE
    [] v.t = "boolean" -> v.n = 1
    [] v.t = "number" -> v.n # 0
    [] v.t = "string" -> v.s # <<>>
    [] OTHER -> TRUE

\* a canonical array index: such keys come first in key order, ascending
IsArrayIndex(key) ==
  /\ key # <<>>
  /\ \A i \in 1..Len(key) : IsDigit(key[i])
  /\ NumberToString(DigitsValue(key)) = key

OwnIndex(obj, key) ==
  IF \E i \in 1..Len(obj.own) : obj.own[i].key = key
  THEN CHOOSE i \in 1..Len(obj.own) : obj.own[i].key = key
  ELSE 0

\* Object.hasOwn(obj, key)
HasOwn(obj, key) == OwnIndex(obj, key) # 0

\* obj[key]
Get(obj, key) ==
  IF HasOwn(obj, key) THEN obj.own[OwnIndex(obj, key)].val
  ELSE IF \E i \in 1..Len(obj.inh) : obj.inh[i].key = key
  THEN obj.inh[CHOOSE i \in 1..Len(obj.inh) : obj.inh[i].key = key].val
  ELSE Undefined

\* a variant that does not see the own property that comes last
ObjectKeys_WithoutLast(obj) ==
  [i \in 1..(IF Len(obj.own) > 1 THEN Len(obj.own) - 1 ELSE Len(obj.own)) |->
     Str(obj.own[i].key)]

\* Object.keys(obj)
ObjectKeys(obj) == [i \in 1..Len(obj.own) |-> Str(obj.own[i].key)]

\* Object.values(obj)
ObjectValues(obj) == [i \in 1..Len(obj.own) |-> obj.own[i].val]

\* the keys for (const key in obj) visits: the own ones, then the inherited ones
\* that no own property shadows
ForInKeys(obj) ==
  ObjectKeys(obj) \o
  [i \in 1..Len(SelectSeq(obj.inh, LAMBDA e : ~HasOwn(obj, e.key))) |->
     Str(SelectSeq(obj.inh, LAMBDA e : ~HasOwn(obj, e.key))[i].key)]

\* where a new own property with this key goes in key order
InsertPosition(own, key) ==
  IF IsArrayIndex(key)
  THEN Cardinality({i \in 1..Len(own) :
         IsArrayIndex(own[i].key) /\ DigitsValue(own[i].key) < DigitsValue(key)}) + 1
  ELSE Len(own) + 1

\* obj[key] = val
SetOwn(obj, key, val) ==
  IF HasOwn(obj, key)
  THEN [obj EXCEPT !.own[OwnIndex(obj, key)].val = val]
  ELSE LET at == InsertPosition(obj.own, key)
       IN  [obj EXCEPT !.own = SubSeq(obj.own, 1, at - 1)
                                 \o <<[key |-> key, val |-> val]>>
                                 \o SubSeq(obj.own, at, Len(obj.own))]

\* delete obj[key]
DeleteOwn(obj, key) ==
  [obj EXCEPT !.own = SelectSeq(obj.own, LAMBDA e : e.key # key)]

(***************************************************************************)
(* The structural validator.                                               *)
(***************************************************************************)
\* a variant of the loop without the Object.hasOwn test: inherited properties
\* are checked too
RECURSIVE isEnumLikeLoop_NoHasOwn(_, _, _)
isEnumLikeLoop_NoHasOwn(enumObj_, keys, i) ==
  IF i > Len(keys) THEN TRUE
  ELSE IF TypeOf(keys[i]) # "string" THEN FALSE
  ELSE IF TypeOf(Get(enumObj_, keys[i].s)) \notin {"string", "number"} THEN FALSE
  ELSE isEnumLikeLoop_NoHasOwn(enumObj_, keys, i + 1)

\* the loop of isEnumLike, from the i-th key of the for-in enumeration on
RECURSIVE isEnumLikeLoop(_, _, _)
isEnumLikeLoop(enumObj_, keys, i) ==
  IF i > Len(keys) THEN TRUE
  ELSE IF HasOwn(enumObj_, keys[i].s)
  THEN IF TypeOf(keys[i]) # "string" THEN FALSE
       ELSE IF TypeOf(Get(enumObj_, keys[i].s)) \notin {"string", "number"} THEN FALSE
       ELSE isEnumLikeLoop(enumObj_, keys, i + 1)
  ELSE isEnumLikeLoop(enumObj_, keys, i + 1)

\* isEnumLike(enumObj)
isEnumLike(enumObj_) ==
  IF ~Truthy(enumObj_.ref) \/ TypeOf(enumObj_.ref) # "object" THEN FALSE
  ELSE isEnumLikeLoop(enumObj_, ForInKeys(enumObj_), 1)

RequiredMessage == <<"The enum object is required.">>

\* `Invalid enum key: ${key}. Expected string.`
InvalidKeyMessage(key) ==
  <<"Invalid enum key: ">> \o key.s \o <<". Expected string.">>

\* `Invalid enum value: ${value}. Expected string or number.`, or the TypeError of
\* the conversion of value to a string
InvalidValueMessage(value) ==
  IF StringOf(value).thrown # <<>> THEN StringOf(value).thrown
  ELSE <<"Invalid enum value: ">> \o StringOf(value).s
         \o <<". Expected string or number.">>

\* the loop of validateEnumLike: what it throws, <<>> when it ends normally
RECURSIVE validateEnumLikeLoop(_, _, _)
validateEnumLikeLoop(enumObj_, keys, i) ==
  IF i > Len(keys) THEN <<>>
  ELSE IF HasOwn(enumObj_, keys[i].s)
  THEN IF TypeOf(keys[i]) # "string" THEN InvalidKeyMessage(keys[i])
       ELSE IF TypeOf(Get(enumObj_, keys[i].s)) \notin {"string", "number"}
       THEN InvalidValueMessage(Get(enumObj_, keys[i].s))
       ELSE validateEnumLikeLoop(enumObj_, keys, i + 1)
  ELSE validateEnumLikeLoop(enumObj_, keys, i + 1)

\* validateEnumLike(enumObj): what it throws, <<>> when it returns
validateEnumLike(enumObj_) ==
  IF ~Truthy(enumObj_.ref) \/ TypeOf(enumObj_.ref) # "object" THEN RequiredMessage
  ELSE validateEnumLikeLoop(enumObj_, ForInKeys(enumObj_), 1)

(***************************************************************************)
(* Scans of the keys or values with the predicate.                         *)
(***************************************************************************)
\* the state of a scan: what the predicate threw (<<>> if nothing), the items
\* found so far, and how often each hook has been called
ScanStart == [thrown |-> <<>>, found |-> <<>>, nc |-> 0, cc |-> 0]

\* items.filter((item) => equal(probe of item, input)), from the i-th item on:
\* probes[i] is what the callback hands to the predicate for items[i]
RECURSIVE filterLoop(_, _, _, _, _, _)
RECURSIVE filterStep(_, _, _, _, _, _, _)
\* a variant that catches what the predicate throws and drops the item
filterStep_SwallowsThrow(options, items, probes, input, i, acc, e) ==
  filterLoop(options, items, probes, input, i + 1,
             [thrown |-> <<>>,
              found |-> IF e.thrown = <<>> /\ e.eq
                        THEN Append(acc.found, items[i]) ELSE acc.found,
              nc |-> acc.nc + e.nc,
              cc |-> acc.cc + e.cc])

\* the i-th item is kept or dropped by the predicate's outcome e; a throw ends the scan
filterStep(options, items, probes, input, i, acc, e) ==
  IF e.thrown # <<>>
  THEN [thrown |-> e.thrown, found |-> acc.found,
        nc |-> acc.nc + e.nc, cc |-> acc.cc + e.cc]
  ELSE filterLoop(options, items, probes, input, i + 1,
                  [thrown |-> <<>>,
                   found |-> IF e.eq THEN Append(acc.found, items[i]) ELSE acc.found,
                   nc |-> acc.nc + e.nc,
                   cc |-> acc.cc + e.cc])

filterLoop(options, items, probes, input, i, acc) ==
  IF i > Len(items) THEN acc
  ELSE filterStep(options, items, probes, input, i, acc,
                  equalFn(options, probes[i], input))

filter(options, items, probes, input) ==
  filterLoop(options, items, probes, input, 1, ScanStart)

\* items.some((item) => equal(item, input)), from the i-th item on: the scan
\* stops at the first item the predicate matches
RECURSIVE someLoop(_, _, _, _, _)
RECURSIVE someStep(_, _, _, _, _, _)
\* the predicate's outcome e for the i-th item: a throw or a match ends the scan
someStep(options, items, input, i, acc, e) ==
  IF e.thrown # <<>>
  THEN [thrown |-> e.thrown, found |-> acc.found,
        nc |-> acc.nc + e.nc, cc |-> acc.cc + e.cc]
  ELSE IF e.eq
  THEN [thrown |-> <<>>, found |-> Append(acc.found, items[i]),
        nc |-> acc.nc + e.nc, cc |-> acc.cc + e.cc]
  ELSE someLoop(options, items, input, i + 1,
                [thrown |-> <<>>, found |-> acc.found,
                 nc |-> acc.nc + e.nc, cc |-> acc.cc + e.cc])

someLoop(options, items, input, i, acc) ==
  IF i > Len(items) THEN acc
  ELSE someStep(options, items, input, i, acc, equalFn(options, items[i], input))

some(options, items, input) == someLoop(options, items, input, 1, ScanStart)

(***************************************************************************)
(* The outcome of a call: a returned value, a returned list or a thrown    *)
(* error, with the number of calls of the caller's hooks it made.          *)
(***************************************************************************)
Returns(v, nc, cc) ==
  [kind |-> "value", val |-> v, list |-> <<>>, thrown |-> <<>>, nc |-> nc, cc |-> cc]
ReturnsList(l, nc, cc) ==
  [kind |-> "list", val |-> Undefined, list |-> l, thrown |-> <<>>, nc |-> nc, cc |-> cc]
Throws(msg, nc, cc) ==
  [kind |-> "throw", val |-> Undefined, list |-> <<>>, thrown |-> msg, nc |-> nc, cc |-> cc]
NoResult ==
  [kind |-> "none", val |-> Undefined, list |-> <<>>, thrown |-> <<>>, nc |-> 0, cc |-> 0]

ValueByValueMessage == <<"Enum values are not unique. Cannot get value by value.">>
ValueByKeyMessage == <<"Enum keys are not unique. Cannot get value by key.">>
KeyByKeyMessage == <<"Enum keys are not unique. Cannot get key by key.">>
KeyByValueMessage == <<"Enum values are not unique. Cannot get key by value.">>

\* the values the callback of a scan of the keys by value hands to the predicate
ValuesOfKeys(enumObj_) ==
  [i \in 1..Len(ObjectKeys(enumObj_)) |-> Get(enumObj_, ObjectKeys(enumObj_)[i].s)]

(***************************************************************************)
(* The base lookups.                                                       *)
(***************************************************************************)
enumValueByValue(enumObj_, value, options) ==
  IF validateEnumLike(enumObj_) # <<>> THEN Throws(validateEnumLike(enumObj_), 0, 0)
  ELSE IF IsNullish(value) THEN Returns(Undefined, 0, 0)
  ELSE LET scan == filter(options, ObjectValues(enumObj_), ObjectValues(enumObj_), value)
           foundValues == scan.found
       IN  IF scan.thrown # <<>> THEN Throws(scan.thrown, scan.nc, scan.cc)
           ELSE IF Len(foundValues) = 0 THEN Returns(Undefined, scan.nc, scan.cc)
           ELSE IF Len(foundValues) > 1 THEN Throws(ValueByValueMessage, scan.nc, scan.cc)
           ELSE Returns(foundValues[1], scan.nc, scan.cc)

enumValueByKey(enumObj_, key, options) ==
  IF validateEnumLike(enumObj_) # <<>> THEN Throws(validateEnumLike(enumObj_), 0, 0)
  ELSE IF IsNullish(key) THEN Returns(Undefined, 0, 0)
  ELSE LET scan == filter(options, ObjectKeys(enumObj_), ObjectKeys(enumObj_), key)
           foundKeys == scan.found
       IN  IF scan.thrown # <<>> THEN Throws(scan.thrown, scan.nc, scan.cc)
           ELSE IF Len(foundKeys) = 0 THEN Returns(Undefined, scan.nc, scan.cc)
           ELSE IF Len(foundKeys) > 1 THEN Throws(ValueByKeyMessage, scan.nc, scan.cc)
           ELSE Returns(Get(enumObj_, foundKeys[1].s), scan.nc, scan.cc)

\* a variant without the early return for a null or undefined value
enumKeysByValue_NoNullGuard(enumObj_, value, options) ==
  IF validateEnumLike(enumObj_) # <<>> THEN Throws(validateEnumLike(enumObj_), 0, 0)
  ELSE LET scan == filter(options, ObjectKeys(enumObj_), ValuesOfKeys(enumObj_), value)
       IN  IF scan.thrown # <<>> THEN Throws(scan.thrown, scan.nc, scan.cc)
           ELSE ReturnsList(scan.found, scan.nc, scan.cc)

enumKeysByValue(enumObj_, value, options) ==
  IF validateEnumLike(enumObj_) # <<>> THEN Throws(validateEnumLike(enumObj_), 0, 0)
  ELSE IF IsNullish(value) THEN ReturnsList(<<>>, 0, 0)
  ELSE LET scan == filter(options, ObjectKeys(enumObj_), ValuesOfKeys(enumObj_), value)
       IN  IF scan.thrown # <<>> THEN Throws(scan.thrown, scan.nc, scan.cc)
           ELSE ReturnsList(scan.found, scan.nc, scan.cc)

enumKeyByKey(enumObj_, key, options) ==
  IF validateEnumLike(enumObj_) # <<>> THEN Throws(validateEnumLike(enumObj_), 0, 0)
  ELSE IF IsNullish(key) THEN Returns(Undefined, 0, 0)
  ELSE LET scan == filter(options, ObjectKeys(enumObj_), ObjectKeys(enumObj_), key)
           foundKeys == scan.found
       IN  IF scan.thrown # <<>> THEN Throws(scan.thrown, scan.nc, scan.cc)
           ELSE IF Len(foundKeys) = 0 THEN Returns(Undefined, scan.nc, scan.cc)
           ELSE IF Len(foundKeys) > 1 THEN Throws(KeyByKeyMessage, scan.nc, scan.cc)
           ELSE Returns(foundKeys[1], scan.nc, scan.cc)

\* a variant that returns the first of several matching keys
enumKeyByValue_FirstMatch(enumObj_, value, options) ==
  IF validateEnumLike(enumObj_) # <<>> THEN Throws(validateEnumLike(enumObj_), 0, 0)
  ELSE IF IsNullish(value) THEN Returns(Undefined, 0, 0)
  ELSE LET scan == filter(options, ObjectKeys(enumObj_), ValuesOfKeys(enumObj_), value)
           foundKeys == scan.found
       IN  IF scan.thrown # <<>> THEN Throws(scan.thrown, scan.nc, scan.cc)
           ELSE IF Len(foundKeys) = 0 THEN Returns(Undefined, scan.nc, scan.cc)
           ELSE Returns(foundKeys[1], scan.nc, scan.cc)

\* a variant whose callback compares the key, not the key's value, with the input
enumKeyByValue_ComparesKeys(enumObj_, value, options) ==
  IF validateEnumLike(enumObj_) # <<>> THEN Throws(validateEnumLike(enumObj_), 0, 0)
  ELSE IF IsNullish(value) THEN Returns(Undefined, 0, 0)
  ELSE LET scan == filter(options, ObjectKeys(enumObj_), ObjectKeys(enumObj_), value)
           foundKeys == scan.found
       IN  IF scan.thrown # <<>> THEN Throws(scan.thrown, scan.nc, scan.cc)
           ELSE IF Len(foundKeys) = 0 THEN Returns(Undefined, scan.nc, scan.cc)
           ELSE IF Len(foundKeys) > 1 THEN Throws(KeyByValueMessage, scan.nc, scan.cc)
           ELSE Returns(foundKeys[1], scan.nc, scan.cc)

\* a variant that reports duplicate values with the message of the lookup by key
enumKeyByValue_KeyMessage(enumObj_, value, options) ==
  IF validateEnumLike(enumObj_) # <<>> THEN Throws(validateEnumLike(enumObj_), 0, 0)
  ELSE IF IsNullish(value) THEN Returns(Undefined, 0, 0)
  ELSE LET scan == filter(options, ObjectKeys(enumObj_), ValuesOfKeys(enumObj_), value)
           foundKeys == scan.found
       IN  IF scan.thrown # <<>> THEN Throws(scan.thrown, scan.nc, scan.cc)
           ELSE IF Len(foundKeys) = 0 THEN Returns(Undefined, scan.nc, scan.cc)
           ELSE IF Len(foundKeys) > 1 THEN Throws(KeyByKeyMessage, scan.nc, scan.cc)
           ELSE Returns(foundKeys[1], scan.nc, scan.cc)

enumKeyByValue(enumObj_, value, options) ==
  IF validateEnumLike(enumObj_) # <<>> THEN Throws(validateEnumLike(enumObj_), 0, 0)
  ELSE IF IsNullish(value) THEN Returns(Undefined, 0, 0)
  ELSE LET scan == filter(options, ObjectKeys(enumObj_), ValuesOfKeys(enumObj_), value)
           foundKeys == scan.found
       IN  IF scan.thrown # <<>> THEN Throws(scan.thrown, scan.nc, scan.cc)
           ELSE IF Len(foundKeys) = 0 THEN Returns(Undefined, scan.nc, scan.cc)
           ELSE IF Len(foundKeys) > 1 THEN Throws(KeyByValueMessage, scan.nc, scan.cc)
           ELSE Returns(foundKeys[1], scan.nc, scan.cc)

(***************************************************************************)
(* The validation and conversion wrappers.                                 *)
(***************************************************************************)
\* a variant that, as toEnumValue does, throws when several entries match
isEnumValue_ThrowsOnSeveral(enumObj_, value, options) ==
  IF validateEnumLike(enumObj_) # <<>> THEN Throws(validateEnumLike(enumObj_), 0, 0)
  ELSE IF IsNullish(value) THEN Returns(Bool(FALSE), 0, 0)
  ELSE LET scan == filter(options, ObjectValues(enumObj_), ObjectValues(enumObj_), value)
       IN  IF scan.thrown # <<>> THEN Throws(scan.thrown, scan.nc, scan.cc)
           ELSE IF Len(scan.found) > 1 THEN Throws(ValueByValueMessage, scan.nc, scan.cc)
           ELSE Returns(Bool(Len(scan.found) > 0), scan.nc, scan.cc)

isEnumValue(enumObj_, value, options) ==
  IF validateEnumLike(enumObj_) # <<>> THEN Throws(validateEnumLike(enumObj_), 0, 0)
  ELSE IF IsNullish(value) THEN Returns(Bool(FALSE), 0, 0)
  ELSE LET scan == some(options, ObjectValues(enumObj_), value)
       IN  IF scan.thrown # <<>> THEN Throws(scan.thrown, scan.nc, scan.cc)
           ELSE Returns(Bool(Len(scan.found) > 0), scan.nc, scan.cc)

\* a variant that returns the input in place of the entry found
toEnumValue_ReturnsInput(enumObj_, value, options) ==
  IF validateEnumLike(enumObj_) # <<>> THEN Throws(validateEnumLike(enumObj_), 0, 0)
  ELSE IF IsNullish(value) THEN Returns(Undefined, 0, 0)
  ELSE LET scan == filter(options, ObjectValues(enumObj_), ObjectValues(enumObj_), value)
           foundValues == scan.found
       IN  IF scan.thrown # <<>> THEN Throws(scan.thrown, scan.nc, scan.cc)
           ELSE IF Len(foundValues) = 0 THEN Returns(Undefined, scan.nc, scan.cc)
           ELSE IF Len(foundValues) > 1 THEN Throws(ValueByValueMessage, scan.nc, scan.cc)
           ELSE Returns(value, scan.nc, scan.cc)

\* a variant that tests the value for null before it validates the enum object
toEnumValue_NullCheckFirst(enumObj_, value, options) ==
  IF IsNullish(value) THEN Returns(Undefined, 0, 0)
  ELSE IF validateEnumLike(enumObj_) # <<>> THEN Throws(validateEnumLike(enumObj_), 0, 0)
  ELSE LET scan == filter(options, ObjectValues(enumObj_), ObjectValues(enumObj_), value)
           foundValues == scan.found
       IN  IF scan.thrown # <<>> THEN Throws(scan.thrown, scan.nc, scan.cc)
           ELSE IF Len(foundValues) = 0 THEN Returns(Undefined, scan.nc, scan.cc)
           ELSE IF Len(foundValues) > 1 THEN Throws(ValueByValueMessage, scan.nc, scan.cc)
           ELSE Returns(foundValues[1], scan.nc, scan.cc)

toEnumValue(enumObj_, value, options) ==
  IF validateEnumLike(enumObj_) # <<>> THEN Throws(validateEnumLike(enumObj_), 0, 0)
  ELSE IF IsNullish(value) THEN Returns(Undefined, 0, 0)
  ELSE LET scan == filter(options, ObjectValues(enumObj_), ObjectValues(enumObj_), value)
           foundValues == scan.found
       IN  IF scan.thrown # <<>> THEN Throws(scan.thrown, scan.nc, scan.cc)
           ELSE IF Len(foundValues) = 0 THEN Returns(Undefined, scan.nc, scan.cc)
           ELSE IF Len(foundValues) > 1 THEN Throws(ValueByValueMessage, scan.nc, scan.cc)
           ELSE Returns(foundValues[1], scan.nc, scan.cc)

\* options.convert ? String(key) : key
compareKeyOf(key, options) ==
  IF options.given /\ options.convert
  THEN IF StringOf(key).thrown # <<>> THEN Thrown(StringOf(key).thrown)
       ELSE Produced(Str(StringOf(key).s))
  ELSE Produced(key)

isEnumKey(enumObj_, key, options) ==
  IF validateEnumLike(enumObj_) # <<>> THEN Throws(validateEnumLike(enumObj_), 0, 0)
  ELSE IF IsNullish(key) THEN Returns(Bool(FALSE), 0, 0)
  ELSE LET compareKey == compareKeyOf(key, options)
           scan == some(options, ObjectKeys(enumObj_), compareKey.v)
       IN  IF compareKey.thrown # <<>> THEN Throws(compareKey.thrown, 0, 0)
           ELSE IF TypeOf(compareKey.v) # "string" THEN Returns(Bool(FALSE), 0, 0)
           ELSE IF scan.thrown # <<>> THEN Throws(scan.thrown, scan.nc, scan.cc)
           ELSE Returns(Bool(Len(scan.found) > 0), scan.nc, scan.cc)

\* a variant that returns the first of several matching keys
toEnumKey_FirstMatch(enumObj_, key, options) ==
  LET compareKey == compareKeyOf(key, options)
      scan == filter(options, ObjectKeys(enumObj_), ObjectKeys(enumObj_), compareKey.v)
  IN  IF validateEnumLike(enumObj_) # <<>> THEN Throws(validateEnumLike(enumObj_), 0, 0)
      ELSE IF IsNullish(key) THEN Returns(Undefined, 0, 0)
      ELSE IF compareKey.thrown # <<>> THEN Throws(compareKey.thrown, 0, 0)
      ELSE IF TypeOf(compareKey.v) # "string" THEN Returns(Undefined, 0, 0)
      ELSE IF scan.thrown # <<>> THEN Throws(scan.thrown, scan.nc, scan.cc)
      ELSE IF Len(scan.found) = 0 THEN Returns(Undefined, scan.nc, scan.cc)
      ELSE Returns(scan.found[1], scan.nc, scan.cc)

toEnumKey(enumObj_, key, options) ==
  IF validateEnumLike(enumObj_) # <<>> THEN Throws(validateEnumLike(enumObj_), 0, 0)
  ELSE IF IsNullish(key) THEN Returns(Undefined, 0, 0)
  ELSE LET compareKey == compareKeyOf(key, options)
           scan == filter(options, ObjectKeys(enumObj_), ObjectKeys(enumObj_), compareKey.v)
           foundKeys == scan.found
       IN  IF compareKey.thrown # <<>> THEN Throws(compareKey.thrown, 0, 0)
           ELSE IF TypeOf(compareKey.v) # "string" THEN Returns(Undefined, 0, 0)
           ELSE IF scan.thrown # <<>> THEN Throws(scan.thrown, scan.nc, scan.cc)
           ELSE IF Len(foundKeys) = 0 THEN Returns(Undefined, scan.nc, scan.cc)
           ELSE IF Len(foundKeys) > 1 THEN Throws(KeyByKeyMessage, scan.nc, scan.cc)
           ELSE Returns(foundKeys[1], scan.nc, scan.cc)

\* a variant that returns the empty list for an invalid enum object
toEnumKeys_SkipsValidation(enumObj_, value, options) ==
  IF validateEnumLike(enumObj_) # <<>> THEN ReturnsList(<<>>, 0, 0)
  ELSE enumKeysByValue(enumObj_, value, options)

toEnumKeys(enumObj_, value, options) ==
  IF validateEnumLike(enumObj_) # <<>> THEN Throws(validateEnumLike(enumObj_), 0, 0)
  ELSE IF IsNullish(value) THEN ReturnsList(<<>>, 0, 0)
  ELSE LET scan == filter(options, ObjectKeys(enumObj_), ValuesOfKeys(enumObj_), value)
       IN  IF scan.thrown # <<>> THEN Throws(scan.thrown, scan.nc, scan.cc)
           ELSE ReturnsList(scan.found, scan.nc, scan.cc)

(***************************************************************************)
(* The inputs of the model.                                                *)
(***************************************************************************)
KeyStrings == {<<"a">>, <<"A">>, <<"1">>}
Numbers == 1..MaxNum
\* values an enum-like mapping may hold
EnumValues == {Str(<<"a">>), Str(<<"A">>), NaN} \union {Num(k) : k \in Numbers}
\* values of a disallowed type
DisallowedValues == {Bool(TRUE)}
\* what a caller passes as the search term
SearchTerms ==
  {Str(<<"a">>), Str(<<"A">>), Str(<<" ", "a">>), Str(<<"1">>), NaN,
   Undefined, Null, BareObject(1)} \union {Num(k) : k \in Numbers}
\* what a caller passes as the enum object when it is no object
NonObjects ==
  {NonObject(v) : v \in {Null, Undefined, Str(<<"a">>), Num(1), Bool(TRUE), Function(1)}}

(***************************************************************************)
(* The state: the enum object the caller holds, the call made last and its *)
(* outcome.                                                                *)
(***************************************************************************)
\* arg is the search term (the second operand of the predicate), left the first
\* operand of the predicate when the predicate itself is called
NoCall == [op |-> "none", left |-> Undefined, arg |-> Undefined, options |-> NoOptions]

CallOf(op, arg, options) ==
  [op |-> op, left |-> Undefined, arg |-> arg, options |-> options]

Idle == call.op = "none"

Init ==
  /\ enumObj \in {ObjectOf(<<>>)} \union NonObjects
  /\ call = NoCall
  /\ result = NoResult

\* the caller adds or overwrites an entry: enumObj[key] = val
SetProperty ==
  /\ Idle
  /\ TypeOf(enumObj.ref) = "object" /\ Truthy(enumObj.ref)
  /\ \E key \in KeyStrings, val \in EnumValues \union DisallowedValues :
       /\ HasOwn(enumObj, key) \/ Len(enumObj.own) < MaxKeys
       /\ enumObj' = SetOwn(enumObj, key, val)
  /\ UNCHANGED <<call, result>>

\* the caller removes an entry: delete enumObj[key]
DeleteProperty ==
  /\ Idle
  /\ \E key \in KeyStrings :
       /\ HasOwn(enumObj, key)
       /\ enumObj' = DeleteOwn(enumObj, key)
  /\ UNCHANGED <<call, result>>

CallEnumValueByValue ==
  /\ Idle
  /\ \E value \in SearchTerms, options \in Options :
       /\ call' = CallOf("enumValueByValue", value, options)
       /\ result' = enumValueByValue(enumObj, value, options)
  /\ UNCHANGED enumObj

CallEnumValueByKey ==
  /\ Idle
  /\ \E key \in SearchTerms, options \in Options :
       /\ call' = CallOf("enumValueByKey", key, options)
       /\ result' = enumValueByKey(enumObj, key, options)
  /\ UNCHANGED enumObj

CallEnumKeysByValue ==
  /\ Idle
  /\ \E value \in SearchTerms, options \in Options :
       /\ call' = CallOf("enumKeysByValue", value, options)
       /\ result' = enumKeysByValue(enumObj, value, options)
  /\ UNCHANGED enumObj

CallEnumKeyByKey ==
  /\ Idle
  /\ \E key \in SearchTerms, options \in Options :
       /\ call' = CallOf("enumKeyByKey", key, options)
       /\ result' = enumKeyByKey(enumObj, key, options)
  /\ UNCHANGED enumObj

CallEnumKeyByValue ==
  /\ Idle
  /\ \E value \in SearchTerms, options \in Options :
       /\ call' = CallOf("enumKeyByValue", value, options)
       /\ result' = enumKeyByValue(enumObj, value, options)
  /\ UNCHANGED enumObj

CallIsEnumValue ==
  /\ Idle
  /\ \E value \in SearchTerms, options \in Options :
       /\ call' = CallOf("isEnumValue", value, options)
       /\ result' = isEnumValue(enumObj, value, options)
  /\ UNCHANGED enumObj

CallToEnumValue ==
  /\ Idle
  /\ \E value \in SearchTerms, options \in Options :
       /\ call' = CallOf("toEnumValue", value, options)
       /\ result' = toEnumValue(enumObj, value, options)
  /\ UNCHANGED enumObj

CallIsEnumKey ==
  /\ Idle
  /\ \E key \in SearchTerms, options \in Options :
       /\ call' = CallOf("isEnumKey", key, options)
       /\ result' = isEnumKey(enumObj, key, options)
  /\ UNCHANGED enumObj

CallToEnumKey ==
  /\ Idle
  /\ \E key \in SearchTerms, options \in Options :
       /\ call' = CallOf("toEnumKey", key, options)
       /\ result' = toEnumKey(enumObj, key, options)
  /\ UNCHANGED enumObj

\* a variant of the call that removes the first entry of the mapping it scans
CallToEnumKeys_RemovesEntry ==
  /\ Idle
  /\ \E value \in SearchTerms, options \in Options :
       /\ call' = CallOf("toEnumKeys", value, options)
       /\ result' = toEnumKeys(enumObj, value, options)
  /\ enumObj' = IF Len(enumObj.own) > 0
                THEN DeleteOwn(enumObj, enumObj.own[1].key)
                ELSE enumObj

CallToEnumKeys ==
  /\ Idle
  /\ \E value \in SearchTerms, options \in Options :
       /\ call' = CallOf("toEnumKeys", value, options)
       /\ result' = toEnumKeys(enumObj, value, options)
  /\ UNCHANGED enumObj

\* the call is over: the caller has its outcome and goes on
Return ==
  /\ ~Idle
  /\ call' = NoCall
  /\ result' = NoResult
  /\ UNCHANGED enumObj

Next ==
  \/ SetProperty
  \/ DeleteProperty
  \/ CallEnumValueByValue
  \/ CallEnumValueByKey
  \/ CallEnumKeysByValue
  \/ CallEnumKeyByKey
  \/ CallEnumKeyByValue
  \/ CallIsEnumValue
  \/ CallToEnumValue
  \/ CallIsEnumKey
  \/ CallToEnumKey
  \/ CallToEnumKeys
  \/ Return

Spec == Init /\ [][Next]_vars

(***************************************************************************)
(* The validator on arbitrary objects: own properties of any type, a       *)
(* symbol-keyed property, a property inherited from the prototype.         *)
(***************************************************************************)
AnyValues ==
  {Str(<<"a">>), NaN, Bool(TRUE), Null, Undefined, PlainObject(1), EmptyArray(1),
   BareObject(1), Function(1)} \union {Num(k) : k \in Numbers}
\* values given to the symbol-keyed and to the inherited property
ExtraValues == {Str(<<"a">>), Bool(TRUE)}

\* the caller adds or overwrites an own property with a value of any type
SetAnyProperty ==
  /\ Idle
  /\ TypeOf(enumObj.ref) = "object" /\ Truthy(enumObj.ref)
  /\ \E key \in KeyStrings, val \in AnyValues :
       /\ HasOwn(enumObj, key) \/ Len(enumObj.own) < MaxKeys
       /\ enumObj' = SetOwn(enumObj, key, val)
  /\ UNCHANGED <<call, result>>

\* the caller sets the symbol-keyed property: enumObj[symbolKey] = val
SetSymbolProperty ==
  /\ Idle
  /\ TypeOf(enumObj.ref) = "object" /\ Truthy(enumObj.ref)
  /\ \E val \in ExtraValues : enumObj' = [enumObj EXCEPT !.sym = <<val>>]
  /\ UNCHANGED <<call, result>>

\* the object gets a prototype with one enumerable property
SetInheritedProperty ==
  /\ Idle
  /\ TypeOf(enumObj.ref) = "object" /\ Truthy(enumObj.ref)
  /\ \E key \in KeyStrings, val \in ExtraValues :
       enumObj' = [enumObj EXCEPT !.inh = <<[key |-> key, val |-> val]>>]
  /\ UNCHANGED <<call, result>>

CallIsEnumLike ==
  /\ Idle
  /\ call' = CallOf("isEnumLike", Undefined, NoOptions)
  /\ result' = Returns(Bool(isEnumLike(enumObj)), 0, 0)
  /\ UNCHANGED enumObj

CallValidateEnumLike ==
  /\ Idle
  /\ call' = CallOf("validateEnumLike", Undefined, NoOptions)
  /\ result' = IF validateEnumLike(enumObj) # <<>>
               THEN Throws(validateEnumLike(enumObj), 0, 0)
               ELSE Returns(Undefined, 0, 0)
  /\ UNCHANGED enumObj

NextValidator ==
  \/ SetAnyProperty
  \/ DeleteProperty
  \/ SetSymbolProperty
  \/ SetInheritedProperty
  \/ CallIsEnumLike
  \/ CallValidateEnumLike
  \/ Return

SpecValidator == Init /\ [][NextValidator]_vars

(***************************************************************************)
(* The predicate of equalFn on operands of any type.                       *)
(***************************************************************************)
\* strings that a numeric parse trims, rejects or reads as a whole number
NumeralStrings ==
  {Str(<<>>), Str(<<" ">>), Str(<<" ", "1", " ">>), Str(<<"1", ".", "0">>)}

\* the strings String(null) and String(undefined) give
NullishNames ==
  {Str(<<"n", "u", "l", "l">>), Str(<<"u", "n", "d", "e", "f", "i", "n", "e", "d">>)}

Operands ==
  SearchTerms \union EnumValues \union NumeralStrings \union NullishNames
    \union {Num(0), Bool(TRUE), PlainObject(1), PlainObject(2)}

InitEqual ==
  /\ enumObj = ObjectOf(<<>>)
  /\ call = NoCall
  /\ result = NoResult

\* equalFn(options)(a, b)
CallEqualFn ==
  /\ Idle
  /\ \E a \in Operands, b \in Operands, options \in PredicateOptions :
       /\ call' = [op |-> "equalFn", left |-> a, arg |-> b, options |-> options]
       /\ result' = LET e == equalFn(options, a, b)
                    IN  IF e.thrown # <<>> THEN Throws(e.thrown, e.nc, e.cc)
                        ELSE Returns(Bool(e.eq), e.nc, e.cc)
  /\ UNCHANGED enumObj

NextEqual ==
  \/ CallEqualFn
  \/ Return

SpecEqual == InitEqual /\ [][NextEqual]_vars

(***************************************************************************)
(* The lookups of the custom converter test: a mapping of doubled numbers,  *)
(* searched with convert set and a converter that doubles.                 *)
(***************************************************************************)
DoubledValues == {Num(k) : k \in Numbers} \union {Num(2 * k) : k \in Numbers}

ConvertWith(converter) ==
  [given |-> TRUE, normalize |-> "none", ignoreCase |-> FALSE,
   convert |-> TRUE, converter |-> converter]

\* the caller adds or overwrites a numeric entry
SetDoubledProperty ==
  /\ Idle
  /\ TypeOf(enumObj.ref) = "object" /\ Truthy(enumObj.ref)
  /\ \E key \in KeyStrings, val \in DoubledValues :
       /\ HasOwn(enumObj, key) \/ Len(enumObj.own) < MaxKeys
       /\ enumObj' = SetOwn(enumObj, key, val)
  /\ UNCHANGED <<call, result>>

\* isEnumValue(doubledEnum, value, {convert: true, converter})
ConvertIsEnumValue ==
  /\ Idle
  /\ \E value \in SearchTerms, converter \in DoublingConverters :
       /\ call' = CallOf("isEnumValue", value, ConvertWith(converter))
       /\ result' = isEnumValue(enumObj, value, ConvertWith(converter))
  /\ UNCHANGED enumObj

\* toEnumValue(doubledEnum, value, {convert: true, converter})
ConvertToEnumValue ==
  /\ Idle
  /\ \E value \in SearchTerms, converter \in DoublingConverters :
       /\ call' = CallOf("toEnumValue", value, ConvertWith(converter))
       /\ result' = toEnumValue(enumObj, value, ConvertWith(converter))
  /\ UNCHANGED enumObj

\* toEnumKeys(doubledEnum, value, {convert: true, converter})
ConvertToEnumKeys ==
  /\ Idle
  /\ \E value \in SearchTerms, converter \in DoublingConverters :
       /\ call' = CallOf("toEnumKeys", value, ConvertWith(converter))
       /\ result' = toEnumKeys(enumObj, value, ConvertWith(converter))
  /\ UNCHANGED enumObj

NextConverter ==
  \/ SetDoubledProperty
  \/ DeleteProperty
  \/ ConvertIsEnumValue
  \/ ConvertToEnumValue
  \/ ConvertToEnumKeys
  \/ Return

SpecConverter == Init /\ [][NextConverter]_vars

(***************************************************************************)
(* Properties.                                                             *)
(***************************************************************************)
\* the enum object is a non-null object whose own values are strings or numbers
ValidMapping ==
  /\ enumObj.ref.t = "object"
  /\ \A i \in 1..Len(enumObj.own) : enumObj.own[i].val.t \in {"string", "number", "NaN"}

HooksDoNotThrow(options) ==
  options.normalize # "throws" /\ options.converter # "throws"

\* no field of the options bundle is set, or there is no bundle
DefaultOptions(options) ==
  \/ ~options.given
  \/ /\ options.normalize = "none" /\ ~options.ignoreCase
     /\ ~options.convert /\ options.converter = "none"

\* the predicate returns true for the candidate and the input
Matches(options, candidate, input) ==
  equalFn(options, candidate, input).thrown = <<>> /\ equalFn(options, candidate, input).eq

\* the positions of the entries that the predicate matches against the input
MatchingEntries(options, probes, input) ==
  {i \in 1..Len(probes) : Matches(options, probes[i], input)}

SingularOps ==
  {"enumValueByValue", "enumValueByKey", "enumKeyByKey", "enumKeyByValue",
   "toEnumValue", "toEnumKey"}
KeyScanOps == {"enumValueByKey", "enumKeyByKey", "toEnumKey", "isEnumKey"}
KeyAnswerOps == {"enumKeyByKey", "enumKeyByValue", "toEnumKey"}
PluralOps == {"enumKeysByValue", "toEnumKeys"}
NotUniqueMessages ==
  {ValueByValueMessage, ValueByKeyMessage, KeyByKeyMessage, KeyByValueMessage}

\* what the operation compares with the input, entry by entry, and what it
\* answers with for each entry
ProbesOf(op) == IF op \in KeyScanOps THEN ObjectKeys(enumObj) ELSE ObjectValues(enumObj)
AnswersOf(op) == IF op \in KeyAnswerOps THEN ObjectKeys(enumObj) ELSE ObjectValues(enumObj)

SingularCase ==
  /\ call.op \in SingularOps
  /\ ValidMapping
  /\ ~IsNullish(call.arg)
  /\ HooksDoNotThrow(call.options)
  /\ call.op = "toEnumKey" => call.arg.t = "string"

SingularOutcomeByCount ==
  LET m == MatchingEntries(call.options, ProbesOf(call.op), call.arg)
  IN  CASE Cardinality(m) = 0 -> result.kind = "value" /\ result.val = Undefined
        [] Cardinality(m) = 1 ->
             result.kind = "value" /\ result.val = AnswersOf(call.op)[CHOOSE i \in m : TRUE]
        [] OTHER -> result.kind = "throw" /\ result.thrown \in NotUniqueMessages

\* C1: on a valid mapping, with a non-null search term and hooks that do not throw,
\* every singular lookup returns undefined when the predicate matches no entry,
\* the value or key of the matched entry when it matches exactly one, and throws a
\* 'not unique' error when it matches more than one.
C1_SingularLookupByMatchCount == SingularCase => SingularOutcomeByCount

\* C1 holds for every search term that can be converted to a string.
C1_ExceptUnconvertibleTerms ==
  (SingularCase /\ StringOf(call.arg).thrown = <<>>) => SingularOutcomeByCount

\* C2: whatever a lookup returns other than undefined is an entry of the mapping:
\* a stored value from the value-returning lookups, an own key from the
\* key-returning lookups, own keys only in the lists of the plural lookups.
C2_ClosedSet ==
  /\ (call.op \in SingularOps /\ result.kind = "value" /\ result.val # Undefined) =>
       \E i \in 1..Len(enumObj.own) : result.val = AnswersOf(call.op)[i]
  /\ (call.op \in PluralOps /\ result.kind = "list") =>
       \A j \in 1..Len(result.list) :
         \E i \in 1..Len(enumObj.own) : result.list[j] = Str(enumObj.own[i].key)

\* a lookup returned a stored entry for an input that is not that entry
C2_Witness ==
  /\ call.op = "toEnumValue" /\ result.kind = "value" /\ result.val # Undefined
  /\ result.val # call.arg
  /\ call.options.normalize = "trim" /\ call.options.ignoreCase

\* two own keys hold a value strictly equal to the search term
DuplicateOfTerm ==
  \E i, j \in 1..Len(enumObj.own) :
    /\ i # j
    /\ StrictEquals(enumObj.own[i].val, call.arg)
    /\ StrictEquals(enumObj.own[j].val, call.arg)

\* the own keys whose value is strictly equal to v, in key order
KeysHolding(v) ==
  LET held == SelectSeq(enumObj.own, LAMBDA e : StrictEquals(e.val, v))
  IN  [i \in 1..Len(held) |-> Str(held[i].key)]

\* C3: when two keys of a valid mapping hold the identical value V, under the
\* default options enumKeyByValue(obj, V) throws 'Enum values are not unique.
\* Cannot get key by value.' and enumKeysByValue(obj, V) returns the keys that
\* hold V in key-iteration order.
C3_DuplicateDetection ==
  (ValidMapping /\ DefaultOptions(call.options) /\ DuplicateOfTerm) =>
    /\ call.op = "enumKeyByValue" =>
         result.kind = "throw" /\ result.thrown = KeyByValueMessage
    /\ call.op = "enumKeysByValue" =>
         /\ result.kind = "list"
         /\ result.list = KeysHolding(call.arg)
         /\ Len(result.list) >= 2

C3_Witness ==
  /\ ValidMapping /\ DefaultOptions(call.options) /\ DuplicateOfTerm
  /\ call.op = "enumKeysByValue"
  /\ result.list = <<Str(<<"1">>), Str(<<"a">>)>>

PluralCase ==
  /\ call.op \in PluralOps
  /\ ValidMapping
  /\ ~IsNullish(call.arg)
  /\ HooksDoNotThrow(call.options)

\* the own keys whose value the predicate matches against the input, in key order
MatchedKeys(options, input) ==
  LET held == SelectSeq(enumObj.own, LAMBDA e : Matches(options, e.val, input))
  IN  [i \in 1..Len(held) |-> Str(held[i].key)]

\* C4: on a valid mapping, with a non-null value and hooks that do not throw,
\* enumKeysByValue and toEnumKeys return exactly the own keys whose value the
\* predicate matches, in key-iteration order, and never throw.
C4_PluralLookupReturnsAllMatches ==
  PluralCase =>
    result.kind = "list" /\ result.list = MatchedKeys(call.options, call.arg)

\* C4 holds for every value that can be converted to a string.
C4_ExceptUnconvertibleTerms ==
  (PluralCase /\ StringOf(call.arg).thrown = <<>>) =>
    result.kind = "list" /\ result.list = MatchedKeys(call.options, call.arg)

MappingOps ==
  SingularOps \union PluralOps \union {"isEnumValue", "isEnumKey"}

\* C5: when the enum object is not a valid enum-like mapping, every mapping
\* operation throws the validator's error, whatever the search term is, and calls
\* neither normalize nor converter.
C5_ValidationFirst ==
  (call.op \in MappingOps /\ ~ValidMapping) =>
    /\ result.kind = "throw"
    /\ result.thrown # <<>>
    /\ result.thrown = validateEnumLike(enumObj)
    /\ result.nc = 0 /\ result.cc = 0

\* the search term matches a well-formed entry, another entry has a disallowed
\* type, the hooks are set, and the call failed with the validator's error
C5_Witness ==
  /\ call.op = "toEnumValue"
  /\ Len(enumObj.own) = 2
  /\ enumObj.own[1].val = call.arg
  /\ enumObj.own[2].val = Bool(TRUE)
  /\ call.options.normalize = "trim" /\ call.options.converter = "constant"
  /\ call.options.convert
  /\ result.kind = "throw"
  /\ result.thrown =
       <<"Invalid enum value: ", "t", "r", "u", "e", ". Expected string or number.">>

\* the same for a null search term and an enum object that is no object
C5_WitnessNullTerm ==
  /\ call.op = "isEnumKey" /\ call.arg = Null /\ enumObj.ref = Undefined
  /\ result.thrown = RequiredMessage

\* C6: on a valid mapping a null or undefined search term yields the empty result
\* (undefined, the empty list, false) without a throw and without a call of
\* normalize or converter, whatever the options are.
C6_NullSafety ==
  (call.op \in MappingOps /\ ValidMapping /\ IsNullish(call.arg)) =>
    result = IF call.op \in PluralOps THEN ReturnsList(<<>>, 0, 0)
             ELSE IF call.op \in {"isEnumValue", "isEnumKey"} THEN Returns(Bool(FALSE), 0, 0)
             ELSE Returns(Undefined, 0, 0)

\* a null search term on a mapping with entries, with hooks that throw when called
C6_Witness ==
  /\ call.op = "toEnumKeys" /\ call.arg = Null
  /\ ValidMapping /\ Len(enumObj.own) = MaxKeys
  /\ call.options.normalize = "throws" /\ call.options.converter = "throws"
  /\ call.options.convert
  /\ result.kind = "list" /\ result.list = <<>>

PairwiseDistinctValues ==
  \A i, j \in 1..Len(enumObj.own) : i # j => enumObj.own[i].val # enumObj.own[j].val

NoNaNValue == \A i \in 1..Len(enumObj.own) : enumObj.own[i].val.t # "NaN"

\* enumValueByKey was called with an own key K under the default options
RoundTripCase ==
  /\ call.op = "enumValueByKey"
  /\ DefaultOptions(call.options)
  /\ ValidMapping
  /\ PairwiseDistinctValues
  /\ call.arg.t = "string" /\ HasOwn(enumObj, call.arg.s)

\* enumKeyByValue(obj, <the value enumValueByKey returned>) is K
RoundTripHolds ==
  /\ result.kind = "value"
  /\ enumKeyByValue(enumObj, result.val, NoOptions) = Returns(call.arg, 0, 0)

\* C7 as stated: for a valid mapping with pairwise distinct values and every key
\* K, enumKeyByValue(obj, enumValueByKey(obj, K)) is K under the default options.
C7_RoundTripAsStated == RoundTripCase => RoundTripHolds

\* C7, amended: for a valid mapping whose values are pairwise distinct and none of
\* which is NaN, and every key K, enumKeyByValue(obj, enumValueByKey(obj, K)) is K
\* under the default options.
C7_RoundTripWithoutNaN == (RoundTripCase /\ NoNaNValue) => RoundTripHolds

C7_Witness ==
  /\ RoundTripCase /\ NoNaNValue
  /\ Len(enumObj.own) = MaxKeys
  /\ call.arg = Str(<<"A">>)
  /\ result.val = Num(1)

\* the enum object is a non-null object whose own string-keyed properties all hold
\* a string or a number
OwnPropertiesWellTyped ==
  /\ enumObj.ref.t = "object"
  /\ \A i \in 1..Len(enumObj.own) : enumObj.own[i].val.t \in {"string", "number", "NaN"}

\* C8: isEnumLike(x) is true exactly when x is a non-null object and every own
\* enumerable string-keyed property holds a string or a number; symbol-keyed and
\* inherited properties do not count.
C8_IsEnumLikeExactly ==
  call.op = "isEnumLike" =>
    result = Returns(Bool(OwnPropertiesWellTyped), 0, 0)

\* true for an object with own entries although a symbol-keyed and an inherited
\* property hold a boolean
C8_Witness ==
  /\ call.op = "isEnumLike" /\ result.val = Bool(TRUE)
  /\ Len(enumObj.own) >= 1
  /\ enumObj.sym = <<Bool(TRUE)>>
  /\ Len(enumObj.inh) = 1 /\ enumObj.inh[1].val = Bool(TRUE)
  /\ ~HasOwn(enumObj, enumObj.inh[1].key)

\* the first own value, in key order, that is neither a string nor a number
FirstOffendingValue ==
  LET bad == SelectSeq(enumObj.own, LAMBDA e : e.val.t \notin {"string", "number", "NaN"})
  IN  bad[1].val

ValidatorOutcomeAsStated ==
  /\ result.kind = "throw" <=> ~OwnPropertiesWellTyped
  /\ result.kind = "throw" =>
       IF enumObj.ref.t # "object"
       THEN result.thrown = <<"The enum object is required.">>
       ELSE result.thrown = <<"Invalid enum value: ">> \o StringOf(FirstOffendingValue).s
                              \o <<". Expected string or number.">>

C9_ExceptUnconvertibleValues ==
  (call.op = "validateEnumLike"
     /\ (~OwnPropertiesWellTyped /\ enumObj.ref.t = "object"
           => StringOf(FirstOffendingValue).thrown = <<>>))
    => ValidatorOutcomeAsStated

\* C10: with no options, or a bundle with no field set, the predicate is strict
\* equality: equal(a, b) is true exactly when a and b are the same value of the
\* same type (and not NaN), and no hook is called.
C10_DefaultIsStrictEquality ==
  (call.op = "equalFn" /\ DefaultOptions(call.options)) =>
    result = Returns(Bool(call.left = call.arg /\ call.left.t # "NaN"), 0, 0)

\* the number 1 and the string '1' compared under the default options
C10_Witness ==
  /\ call.op = "equalFn" /\ DefaultOptions(call.options) /\ call.options.given
  /\ call.left = Num(1) /\ call.arg = Str(<<"1">>)
  /\ result.val = Bool(FALSE)

\* only ignoreCase is in effect: identity normalize, convert not set
IgnoreCaseOnly(options) ==
  /\ options.given /\ options.ignoreCase
  /\ ~options.convert /\ options.normalize = "none"

\* c and d are the same character, or the upper- and lower-case form of one letter
SameCharIgnoringCase(c, d) ==
  \/ c = d
  \/ \E i \in DOMAIN UpperLetters :
       {c, d} = {UpperLetters[i], LowerLetters[i]}

\* the lower-cased forms of two strings are identical
SameIgnoringCase(s, t) ==
  /\ Len(s) = Len(t)
  /\ \A i \in 1..Len(s) : SameCharIgnoringCase(s[i], t[i])

C11_WitnessNoCoercion ==
  /\ call.op = "equalFn" /\ IgnoreCaseOnly(call.options)
  /\ call.left = Num(1) /\ call.arg = Str(<<"1">>)
  /\ result.val = Bool(FALSE)

\* C11 at the level of isEnumValue: with ignoreCase alone a string input is a
\* value of the mapping exactly when some stored string equals it up to case; with
\* no options, exactly when some stored string is the input itself.
C11_IsEnumValueFoldsCase ==
  (call.op = "isEnumValue" /\ ValidMapping /\ call.arg.t = "string") =>
    /\ IgnoreCaseOnly(call.options) =>
         result.val = Bool(\E i \in 1..Len(enumObj.own) :
                             /\ enumObj.own[i].val.t = "string"
                             /\ SameIgnoringCase(enumObj.own[i].val.s, call.arg.s))
    /\ DefaultOptions(call.options) =>
         result.val = Bool(\E i \in 1..Len(enumObj.own) : enumObj.own[i].val = call.arg)

\* isEnumValue({A: 'a'}, 'A', {ignoreCase: true}) is true
C11_WitnessIsEnumValue ==
  /\ call.op = "isEnumValue" /\ IgnoreCaseOnly(call.options)
  /\ enumObj.own = <<[key |-> <<"A">>, val |-> Str(<<"a">>)]>>
  /\ call.arg = Str(<<"A">>)
  /\ result.val = Bool(TRUE)

\* only the default conversion is in effect: convert set, no custom converter,
\* identity normalize, no ignoreCase
DefaultConversionOnly(options) ==
  /\ options.given /\ options.convert /\ options.converter = "none"
  /\ options.normalize = "none" /\ ~options.ignoreCase

\* the predicate returned true
PredicateMatched == result.kind = "value" /\ result.val = Bool(TRUE)

\* x is a string whose trimmed form is not empty and parses as the number n
ParsesAs(x, n) ==
  /\ x.t = "string"
  /\ Len(Trim(x.s)) > 0
  /\ StringToNumber(Trim(x.s)) = n

\* x is no string and String(x) is the string s
StringifiesTo(x, s) ==
  /\ x.t # "string"
  /\ StringOf(x).thrown = <<>>
  /\ Str(StringOf(x).s) = s

\* C12: under the default conversion alone, a numeric candidate that is not NaN
\* matches an input exactly when the input is that number or a string whose
\* trimmed form is not empty and parses as that number; a string candidate
\* matches an input exactly when the input is that string or a non-string whose
\* String() form is that string.
C12_DefaultConversion ==
  (call.op = "equalFn" /\ DefaultConversionOnly(call.options)) =>
    /\ call.left.t = "number" =>
         /\ result.kind = "value"
         /\ PredicateMatched <=> (call.arg = call.left \/ ParsesAs(call.arg, call.left))
    /\ call.left.t = "string" =>
         PredicateMatched <=> (call.arg = call.left \/ StringifiesTo(call.arg, call.left))

\* the number 1 matched by the string '  1  ' with white space around it
C12_Witness ==
  /\ call.op = "equalFn" /\ DefaultConversionOnly(call.options)
  /\ call.left = Num(1) /\ call.arg = Str(<<" ", "1", " ">>)
  /\ PredicateMatched

\* the number 0 not matched by the empty string, which Number() reads as 0
C12_WitnessEmptyString ==
  /\ call.op = "equalFn" /\ DefaultConversionOnly(call.options)
  /\ call.left = Num(0) /\ call.arg = Str(<<>>)
  /\ result.val = Bool(FALSE)

\* the string '1' matched by the number 1
C12_WitnessStringCandidate ==
  /\ call.op = "equalFn" /\ DefaultConversionOnly(call.options)
  /\ call.left = Str(<<"1">>) /\ call.arg = Num(1)
  /\ PredicateMatched

\* the number 1 matched by the string '1.0'
C12_WitnessFraction ==
  /\ call.op = "equalFn" /\ DefaultConversionOnly(call.options)
  /\ call.left = Num(1) /\ call.arg = Str(<<"1", ".", "0">>)
  /\ PredicateMatched

\* C12 at the level of toEnumValue: on the mapping {a: 1} under the default
\* conversion alone, the string '1' gives 1, and a string that is no numeral and
\* NaN give undefined.
C12_ToEnumValueConverts ==
  (/\ call.op = "toEnumValue" /\ DefaultConversionOnly(call.options)
   /\ enumObj.own = <<[key |-> <<"a">>, val |-> Num(1)]>>) =>
    /\ call.arg = Str(<<"1">>) => result = Returns(Num(1), 0, 0)
    /\ call.arg \in {Str(<<"a">>), NaN} => result = Returns(Undefined, 0, 0)

C12_WitnessToEnumValue ==
  /\ call.op = "toEnumValue" /\ DefaultConversionOnly(call.options)
  /\ enumObj.own = <<[key |-> <<"a">>, val |-> Num(1)]>>
  /\ call.arg = Str(<<"1">>) /\ result.val = Num(1)

\* C13: with convert set, toEnumKey given a number that is a value of the mapping
\* returns the key that holds that value (toEnumKey(Priority, 2, {convert: true})
\* is 'Medium').
C13_ToEnumKeyFindsKeyOfValue ==
  (/\ call.op = "toEnumKey" /\ ValidMapping
   /\ DefaultConversionOnly(call.options)
   /\ call.arg.t = "number"
   /\ Len(KeysHolding(call.arg)) = 1) =>
    result.kind = "value" /\ result.val = KeysHolding(call.arg)[1]

\* what toEnumKey does with a number when convert is set: it looks for the key
\* whose name is String(number), whatever the values are
C13_ToEnumKeyComparesKeyNames ==
  (/\ call.op = "toEnumKey" /\ ValidMapping
   /\ DefaultConversionOnly(call.options)
   /\ call.arg.t = "number") =>
    result = IF HasOwn(enumObj, NumberToString(call.arg.n))
             THEN Returns(Str(NumberToString(call.arg.n)), 0, 0)
             ELSE Returns(Undefined, 0, 0)

\* toEnumKey({a: 1}, 1, {convert: true}) is undefined
C13_WitnessNoSuchKey ==
  /\ call.op = "toEnumKey" /\ DefaultConversionOnly(call.options)
  /\ enumObj.own = <<[key |-> <<"a">>, val |-> Num(1)]>>
  /\ call.arg = Num(1)
  /\ result = Returns(Undefined, 0, 0)

\* on a mapping with the reverse entry, toEnumKey({1: 'a', a: 1}, 1, {convert:
\* true}) is '1'
C13_WitnessReverseEntry ==
  /\ call.op = "toEnumKey" /\ DefaultConversionOnly(call.options)
  /\ enumObj.own = <<[key |-> <<"1">>, val |-> Str(<<"a">>)],
                     [key |-> <<"a">>, val |-> Num(1)]>>
  /\ call.arg = Num(1)
  /\ result = Returns(Str(<<"1">>), 0, 0)

\* toEnumValue was called with a converter, convert set, and a numeral string s;
\* exactly one entry of the numeric mapping holds twice the number s parses as
DoublingCase(converter) ==
  /\ call.op = "toEnumValue"
  /\ call.options = ConvertWith(converter)
  /\ ValidMapping
  /\ call.arg.t = "string" /\ Len(Trim(call.arg.s)) > 0
  /\ StringToNumber(call.arg.s).t = "number"
  /\ Len(KeysHolding(Doubled(StringToNumber(call.arg.s)))) = 1

DoublingFindsDoubledValue ==
  result.kind = "value" /\ result.val = Doubled(StringToNumber(call.arg.s))

\* C14 as stated: with the converter s => Number(s) * 2, which doubles whatever it
\* is given, and convert set, toEnumValue finds the entry that holds twice the
\* number of the input string (toEnumValue({Two: 2}, '1', options) is 2).
C14_DoublingConverterAsStated == DoublingCase("double") => DoublingFindsDoubledValue

\* C14, amended: with a converter that doubles the number of a string and returns
\* a number as it is, and convert set, toEnumValue finds the entry that holds twice
\* the number of the input string (toEnumValue({Two: 2}, '1', options) is 2).
C14_StringDoublingConverter ==
  DoublingCase("doubleStrings") => DoublingFindsDoubledValue

\* toEnumValue({a: 2}, '1', {convert: true, converter}) is 2 with the converter
\* that doubles strings only
C14_Witness ==
  /\ DoublingCase("doubleStrings")
  /\ enumObj.own = <<[key |-> <<"a">>, val |-> Num(2)]>>
  /\ call.arg = Str(<<"1">>)
  /\ result = Returns(Num(2), 0, 2)

\* with the converter that doubles everything the same call is undefined: the
\* candidate 2 becomes 4, the input '1' becomes 2
C14_WitnessAsStated ==
  /\ DoublingCase("double")
  /\ enumObj.own = <<[key |-> <<"a">>, val |-> Num(2)]>>
  /\ call.arg = Str(<<"1">>)
  /\ result = Returns(Undefined, 0, 2)

\* convert is set and the default converter is in use; normalize, if any, throws
\* nothing
ConvertWithDefault(options) ==
  /\ options.given /\ options.convert /\ options.converter = "none"
  /\ options.normalize # "throws"

ValueScanOps ==
  {"isEnumValue", "toEnumValue", "enumValueByValue", "enumKeyByValue",
   "enumKeysByValue", "toEnumKeys"}

\* the mapping has entries and every one of them holds NaN
OnlyNaNValues ==
  /\ Len(enumObj.own) > 0
  /\ \A i \in 1..Len(enumObj.own) : enumObj.own[i].val.t = "NaN"

\* the own keys that hold NaN
KeysHoldingNaN == {Str(enumObj.own[i].key) : i \in {j \in 1..Len(enumObj.own) : enumObj.own[j].val.t = "NaN"}}

\* C15: with convert set and the default converter, an entry whose value is NaN
\* is matched by no search term: on a mapping that holds NaN only, isEnumValue is
\* false, the singular lookups by value are undefined and the plural ones empty
\* for every input; on any valid mapping no lookup by value answers with NaN or
\* with a key that holds NaN.
C15_NaNEntryNeverMatches ==
  (call.op \in ValueScanOps /\ ValidMapping /\ ConvertWithDefault(call.options)) =>
    /\ OnlyNaNValues =>
         CASE call.op = "isEnumValue" ->
                result.kind = "value" /\ result.val = Bool(FALSE)
           [] call.op \in PluralOps ->
                result.kind = "list" /\ result.list = <<>>
           [] OTHER ->
                result.kind = "value" /\ result.val = Undefined
    /\ call.op \in {"toEnumValue", "enumValueByValue"} => result.val.t # "NaN"
    /\ call.op = "enumKeyByValue" => result.val \notin KeysHoldingNaN
    /\ \A j \in 1..Len(result.list) : result.list[j] \notin KeysHoldingNaN

\* NaN itself looked up in {a: NaN} with convert set
C15_Witness ==
  /\ call.op = "isEnumValue" /\ ConvertWithDefault(call.options)
  /\ enumObj.own = <<[key |-> <<"a">>, val |-> NaN]>>
  /\ call.arg = NaN
  /\ result.val = Bool(FALSE)

\* a key that holds 1 is found beside a key that holds NaN
C15_WitnessMixed ==
  /\ call.op = "enumKeysByValue" /\ ConvertWithDefault(call.options)
  /\ enumObj.own = <<[key |-> <<"a">>, val |-> NaN], [key |-> <<"A">>, val |-> Num(1)]>>
  /\ call.arg = Str(<<"1">>)
  /\ result.list = <<Str(<<"A">>)>>

\* the outcome of the mapping operation op on the enum object and the search term
\* of the call, under the given options
OutcomeOfCall(op, options) ==
  CASE op = "enumValueByValue" -> enumValueByValue(enumObj, call.arg, options)
    [] op = "enumValueByKey" -> enumValueByKey(enumObj, call.arg, options)
    [] op = "enumKeysByValue" -> enumKeysByValue(enumObj, call.arg, options)
    [] op = "enumKeyByKey" -> enumKeyByKey(enumObj, call.arg, options)
    [] op = "enumKeyByValue" -> enumKeyByValue(enumObj, call.arg, options)
    [] op = "isEnumValue" -> isEnumValue(enumObj, call.arg, options)
    [] op = "toEnumValue" -> toEnumValue(enumObj, call.arg, options)
    [] op = "isEnumKey" -> isEnumKey(enumObj, call.arg, options)
    [] op = "toEnumKey" -> toEnumKey(enumObj, call.arg, options)
    [] op = "toEnumKeys" -> toEnumKeys(enumObj, call.arg, options)

\* the outcome of the predicate on the operands of the call, under the given options
OutcomeOfPredicate(options) ==
  LET e == equalFn(options, call.left, call.arg)
  IN  IF e.thrown # <<>> THEN Throws(e.thrown, e.nc, e.cc)
      ELSE Returns(Bool(e.eq), e.nc, e.cc)

\* a custom converter is supplied and convert is not set
ConverterWithoutConvert(options) ==
  options.given /\ ~options.convert /\ options.converter # "none"

WithoutConverter(options) == [options EXCEPT !.converter = "none"]

\* C16: when convert is false or absent, a supplied converter is never called and
\* every lookup and wrapper has exactly the outcome it has with the converter
\* field left out.
C16_ConverterNeedsConvert ==
  (call.op \in MappingOps /\ ConverterWithoutConvert(call.options)) =>
    /\ result.cc = 0
    /\ result = OutcomeOfCall(call.op, WithoutConverter(call.options))

\* isEnumValue({a: 1}, '1', {converter}) is false although the converter would
\* make every entry match
C16_Witness ==
  /\ call.op = "isEnumValue"
  /\ call.options =
       [given |-> TRUE, normalize |-> "none", ignoreCase |-> FALSE,
        convert |-> FALSE, converter |-> "constant"]
  /\ enumObj.own = <<[key |-> <<"a">>, val |-> Num(1)]>>
  /\ call.arg = Str(<<"1">>)
  /\ result = Returns(Bool(FALSE), 0, 0)
  /\ isEnumValue(enumObj, call.arg, [call.options EXCEPT !.convert = TRUE]).val = Bool(TRUE)

\* a converter that throws is not called either: toEnumValue is undefined
C16_WitnessThrowingConverter ==
  /\ call.op = "toEnumValue" /\ ConverterWithoutConvert(call.options)
  /\ call.options.converter = "throws" /\ call.options.normalize = "none"
  /\ enumObj.own = <<[key |-> <<"a">>, val |-> Num(1)]>>
  /\ call.arg = Str(<<"1">>)
  /\ result = Returns(Undefined, 0, 0)

\* C16 at the level of the predicate of equalFn.
C16_PredicateIgnoresConverter ==
  (call.op = "equalFn" /\ ConverterWithoutConvert(call.options)) =>
    /\ result.cc = 0
    /\ result = OutcomeOfPredicate(WithoutConverter(call.options))

C16_WitnessPredicate ==
  /\ call.op = "equalFn" /\ ConverterWithoutConvert(call.options)
  /\ call.options.converter = "throws"
  /\ call.left = Num(1) /\ call.arg = Str(<<"1">>)
  /\ result = Returns(Bool(FALSE), 0, 0)

\* the normalize hook throws, or convert is set and the converter hook throws
NormalizeThrows(options) == options.given /\ options.normalize = "throws"
ConverterThrows(options) ==
  options.given /\ options.convert /\ options.converter = "throws"

\* the operation scans the entries: the mapping is valid and not empty, the
\* search term is not null, and for isEnumKey and toEnumKey the key, stringified
\* when convert is set, is a string
ScanHappens ==
  /\ call.op \in MappingOps
  /\ ValidMapping /\ Len(enumObj.own) > 0
  /\ ~IsNullish(call.arg)
  /\ call.op \in {"isEnumKey", "toEnumKey"} =>
       IF call.options.given /\ call.options.convert
       THEN StringOf(call.arg).thrown = <<>>
       ELSE call.arg.t = "string"

\* C17: when normalize or the converter throws while the predicate is evaluated
\* in a scan, the operation ends with that exception, unchanged, at the hook's
\* first failing call: normalize has been called once, or normalize twice and the
\* converter once; nothing is caught, turned into an empty result or retried.
C17_HookFailurePropagates ==
  /\ (ScanHappens /\ NormalizeThrows(call.options)) =>
       result = Throws(NormalizeErrorMessage, 1, 0)
  /\ (ScanHappens /\ ~NormalizeThrows(call.options) /\ ConverterThrows(call.options)) =>
       result = Throws(ConverterErrorMessage,
                       IF HasNormalize(call.options) THEN 2 ELSE 0, 1)

\* the converter throws in a lookup that would otherwise find two entries
C17_Witness ==
  /\ call.op = "toEnumKeys" /\ ScanHappens
  /\ ConverterThrows(call.options) /\ call.options.normalize = "trim"
  /\ Len(enumObj.own) = MaxKeys
  /\ \A i \in 1..Len(enumObj.own) : enumObj.own[i].val = call.arg
  /\ result = Throws(ConverterErrorMessage, 2, 1)

\* normalize throws inside isEnumKey
C17_WitnessNormalize ==
  /\ call.op = "isEnumKey" /\ ScanHappens
  /\ NormalizeThrows(call.options)
  /\ HasOwn(enumObj, call.arg.s)
  /\ result = Throws(NormalizeErrorMessage, 1, 0)

\* C17 at the level of the predicate of equalFn.
C17_PredicatePropagates ==
  call.op = "equalFn" =>
    /\ NormalizeThrows(call.options) => result = Throws(NormalizeErrorMessage, 1, 0)
    /\ (~NormalizeThrows(call.options) /\ ConverterThrows(call.options)) =>
         result = Throws(ConverterErrorMessage,
                         IF HasNormalize(call.options) THEN 2 ELSE 0, 1)

\* C18: toEnumValue has the outcome of enumValueByValue and toEnumKeys the outcome
\* of enumKeysByValue, for every enum object, valid or not, every input of any
\* type and every options bundle: the same value or list in the same order, or
\* the same error, after the same calls of the hooks.
C18_WrappersEqualBaseLookups ==
  /\ call.op = "toEnumValue" =>
       result = enumValueByValue(enumObj, call.arg, call.options)
  /\ call.op = "enumValueByValue" =>
       result = toEnumValue(enumObj, call.arg, call.options)
  /\ call.op = "toEnumKeys" =>
       result = enumKeysByValue(enumObj, call.arg, call.options)
  /\ call.op = "enumKeysByValue" =>
       result = toEnumKeys(enumObj, call.arg, call.options)

\* toEnumKeys returned two keys in key order
C18_Witness ==
  /\ call.op = "toEnumKeys"
  /\ result.kind = "list" /\ Len(result.list) = 2
  /\ call.options.ignoreCase
  /\ result = enumKeysByValue(enumObj, call.arg, call.options)

\* toEnumValue threw the validator's error for an object with a boolean entry
C18_WitnessInvalid ==
  /\ call.op = "toEnumValue" /\ ~ValidMapping /\ enumObj.ref.t = "object"
  /\ result.kind = "throw"
  /\ result = enumValueByValue(enumObj, call.arg, call.options)

\* toEnumValue threw 'not unique' for a number that two entries hold
C18_WitnessNotUnique ==
  /\ call.op = "toEnumValue" /\ call.arg.t = "number"
  /\ result.kind = "throw" /\ result.thrown = ValueByValueMessage

\* two outcomes are the same returned value or the same thrown error
SameOutcome(r1, r2) ==
  r1.kind = r2.kind /\ r1.val = r2.val /\ r1.list = r2.list /\ r1.thrown = r2.thrown

\* C19 as stated: for every valid mapping, every key input, string or not, and
\* every options bundle, toEnumKey has the outcome of enumKeyByKey: the same key,
\* both undefined, or both throwing 'Enum keys are not unique. Cannot get key by
\* key.'.
C19_ToEnumKeyEqualsEnumKeyByKey ==
  (call.op = "toEnumKey" /\ ValidMapping) =>
    SameOutcome(result, enumKeyByKey(enumObj, call.arg, call.options))

\* C19, amended: for every valid mapping, every key input that is a string and
\* every options bundle, toEnumKey has the outcome of enumKeyByKey, after the
\* same calls of the hooks.
C19_ToEnumKeyOnStringKeys ==
  (call.op = "toEnumKey" /\ ValidMapping /\ call.arg.t = "string") =>
    result = enumKeyByKey(enumObj, call.arg, call.options)

\* toEnumKey threw 'not unique' for a string key that matches two keys up to case
C19_Witness ==
  /\ call.op = "toEnumKey" /\ ValidMapping /\ call.arg.t = "string"
  /\ call.options.ignoreCase
  /\ result.kind = "throw" /\ result.thrown = KeyByKeyMessage
  /\ result = enumKeyByKey(enumObj, call.arg, call.options)

\* a number as key and a normalize hook that throws: toEnumKey returns undefined
\* without a scan, enumKeyByKey scans and ends with the hook's exception
C19_WitnessNumberKey ==
  /\ call.op = "toEnumKey" /\ ValidMapping /\ Len(enumObj.own) > 0
  /\ call.arg = Num(1)
  /\ call.options.normalize = "throws" /\ ~call.options.convert
  /\ result = Returns(Undefined, 0, 0)
  /\ enumKeyByKey(enumObj, call.arg, call.options) = Throws(NormalizeErrorMessage, 1, 0)

\* where toEnumKey and enumKeyByKey part on a key that is no string: convert is
\* not set and normalize throws, or convert is set and the key has no string form
C19_DivergesOnlyWhere ==
  (/\ call.op = "toEnumKey" /\ ValidMapping
   /\ ~SameOutcome(result, enumKeyByKey(enumObj, call.arg, call.options))) =>
    /\ call.arg.t # "string"
    /\ \/ ~call.options.convert /\ NormalizeThrows(call.options)
       \/ call.options.convert /\ StringOf(call.arg).thrown # <<>>

IsEnumKeyCase ==
  /\ call.op = "isEnumKey"
  /\ ValidMapping
  /\ ~IsNullish(call.arg)
  /\ HooksDoNotThrow(call.options)

KeyIsStringified == call.options.given /\ call.options.convert

\* the key the scan compares with: String(key) when convert is set, else the key
KeyCandidate ==
  IF KeyIsStringified THEN Str(StringOf(call.arg).s) ELSE call.arg

IsEnumKeyOutcomeAsStated ==
  IF KeyCandidate.t # "string"
  THEN result = Returns(Bool(FALSE), 0, 0)
  ELSE /\ result.kind = "value"
       /\ result.val =
            Bool(\E i \in 1..Len(enumObj.own) :
                   Matches(call.options, Str(enumObj.own[i].key), KeyCandidate))

\* C20: isEnumKey on a valid mapping with a non-null key and hooks that do not
\* throw: the key is replaced by String(key) when convert is set; a candidate that
\* is no string gives false at once, with no scan and no call of normalize or the
\* converter; otherwise the result is true exactly when the predicate matches the
\* candidate against at least one own key.
C20_IsEnumKey == IsEnumKeyCase => IsEnumKeyOutcomeAsStated

\* C20 holds for every key that can be converted to a string.
C20_ExceptUnconvertibleKeys ==
  (IsEnumKeyCase /\ StringOf(call.arg).thrown = <<>>) => IsEnumKeyOutcomeAsStated

\* isEnumKey({1: 'a'}, 1, {convert: true}) is true
C20_WitnessConvertedNumber ==
  /\ IsEnumKeyCase /\ DefaultConversionOnly(call.options)
  /\ enumObj.own = <<[key |-> <<"1">>, val |-> Str(<<"a">>)]>>
  /\ call.arg = Num(1)
  /\ result.val = Bool(TRUE)

\* isEnumKey({1: 'a'}, 1) is false, and no hook is called
C20_WitnessNumberKey ==
  /\ IsEnumKeyCase /\ ~call.options.convert /\ call.options.normalize = "trim"
  /\ enumObj.own = <<[key |-> <<"1">>, val |-> Str(<<"a">>)]>>
  /\ call.arg = Num(1)
  /\ result = Returns(Bool(FALSE), 0, 0)

\* an object without string form as key, with convert set: String(key) throws
C20_WitnessUnconvertibleKey ==
  /\ IsEnumKeyCase /\ KeyIsStringified
  /\ call.arg = BareObject(1)
  /\ result = Throws(TypeErrorMessage, 0, 0)

\* the 'not unique' message of each singular operation
NotUniqueMessageOf(op) ==
  CASE op \in {"enumValueByValue", "toEnumValue"} ->
         <<"Enum values are not unique. Cannot get value by value.">>
    [] op = "enumValueByKey" ->
         <<"Enum keys are not unique. Cannot get value by key.">>
    [] op \in {"enumKeyByKey", "toEnumKey"} ->
         <<"Enum keys are not unique. Cannot get key by key.">>
    [] op = "enumKeyByValue" ->
         <<"Enum values are not unique. Cannot get key by value.">>

\* C21: a 'not unique' failure comes from a singular operation only and carries
\* the message of that operation and lookup direction; and a singular operation
\* whose predicate matches more than one entry fails with its own message.
C21_OwnNotUniqueMessage ==
  /\ (call.op \in MappingOps /\ result.thrown \in NotUniqueMessages) =>
       /\ call.op \in SingularOps
       /\ result.kind = "throw"
       /\ result.thrown = NotUniqueMessageOf(call.op)
  /\ (SingularCase
        /\ Cardinality(MatchingEntries(call.options, ProbesOf(call.op), call.arg)) > 1) =>
       result.kind = "throw" /\ result.thrown = NotUniqueMessageOf(call.op)

\* toEnumKey on keys that differ in case only, with ignoreCase
C21_Witness ==
  /\ call.op = "toEnumKey" /\ call.options.ignoreCase
  /\ HasOwn(enumObj, <<"a">>) /\ HasOwn(enumObj, <<"A">>)
  /\ call.arg = Str(<<"a">>)
  /\ result.kind = "throw"
  /\ result.thrown = <<"Enum keys are not unique. Cannot get key by key.">>

\* enumValueByKey, enumKeyByValue and toEnumValue have failed with their messages
C21_WitnessValueByKey ==
  /\ call.op = "enumValueByKey" /\ result.kind = "throw"
  /\ result.thrown = <<"Enum keys are not unique. Cannot get value by key.">>

C21_WitnessKeyByValue ==
  /\ call.op = "enumKeyByValue" /\ result.kind = "throw"
  /\ result.thrown = <<"Enum values are not unique. Cannot get key by value.">>

C21_WitnessValueByValue ==
  /\ call.op = "toEnumValue" /\ result.kind = "throw"
  /\ result.thrown = <<"Enum values are not unique. Cannot get value by value.">>

\* the outcome of the mapping operation op on obj and arg under the given options
OutcomeOn(obj, op, arg, options) ==
  CASE op = "enumValueByValue" -> enumValueByValue(obj, arg, options)
    [] op = "enumValueByKey" -> enumValueByKey(obj, arg, options)
    [] op = "enumKeysByValue" -> enumKeysByValue(obj, arg, options)
    [] op = "enumKeyByKey" -> enumKeyByKey(obj, arg, options)
    [] op = "enumKeyByValue" -> enumKeyByValue(obj, arg, options)
    [] op = "isEnumValue" -> isEnumValue(obj, arg, options)
    [] op = "toEnumValue" -> toEnumValue(obj, arg, options)
    [] op = "isEnumKey" -> isEnumKey(obj, arg, options)
    [] op = "toEnumKey" -> toEnumKey(obj, arg, options)
    [] op = "toEnumKeys" -> toEnumKeys(obj, arg, options)

\* a new object given the entries one after the other
RECURSIVE FreshFrom(_, _, _)
FreshFrom(entries, i, obj) ==
  IF i > Len(entries) THEN obj
  ELSE FreshFrom(entries, i + 1, SetOwn(obj, entries[i].key, entries[i].val))

\* a fresh mapping with the current contents of the enum object
FreshMapping ==
  IF enumObj.ref.t = "object" THEN FreshFrom(enumObj.own, 1, ObjectOf(<<>>)) ELSE enumObj

\* some own property holds a value that is neither a string nor a number
HasDisallowedValue ==
  /\ enumObj.ref.t = "object"
  /\ \E i \in 1..Len(enumObj.own) : enumObj.own[i].val.t \notin {"string", "number", "NaN"}

\* C22: whatever additions, overwrites and removals of entries and whatever
\* earlier calls lie behind, a call's outcome is the outcome of the same call on a
\* fresh mapping with the current contents. Under the default options
\* enumValueByKey returns the value a key holds now and undefined for a key the
\* mapping does not hold now, a value held twice now makes enumKeyByValue throw,
\* and a disallowed value held now makes every operation fail validation.
C22_LiveMapping ==
  /\ call.op \in MappingOps =>
       result = OutcomeOn(FreshMapping, call.op, call.arg, call.options)
  /\ (call.op = "enumValueByKey" /\ DefaultOptions(call.options) /\ ValidMapping
        /\ call.arg.t = "string") =>
       /\ result.kind = "value"
       /\ \A i \in 1..Len(enumObj.own) :
            enumObj.own[i].key = call.arg.s => result.val = enumObj.own[i].val
       /\ (\A i \in 1..Len(enumObj.own) : enumObj.own[i].key # call.arg.s) =>
            result.val = Undefined
  /\ (call.op = "enumKeyByValue" /\ DefaultOptions(call.options) /\ ValidMapping
        /\ DuplicateOfTerm) =>
       result.kind = "throw" /\ result.thrown = KeyByValueMessage
  /\ (call.op \in MappingOps /\ HasDisallowedValue) =>
       /\ result.kind = "throw"
       /\ result.thrown \notin NotUniqueMessages
       /\ result.nc = 0 /\ result.cc = 0

\* the key added last is found: enumValueByKey returns the value of the second
\* of two letter keys
C22_Witness ==
  /\ call.op = "enumValueByKey" /\ DefaultOptions(call.options) /\ ValidMapping
  /\ Len(enumObj.own) = 2
  /\ enumObj.own[1].key = <<"a">>
  /\ enumObj.own[2].key = <<"A">> /\ call.arg = Str(<<"A">>)
  /\ result = Returns(enumObj.own[2].val, 0, 0)
  /\ result.val # enumObj.own[1].val

\* a removed key is not found while another key still is there
C22_WitnessRemoved ==
  /\ call.op = "enumValueByKey" /\ DefaultOptions(call.options) /\ ValidMapping
  /\ enumObj.own = <<[key |-> <<"A">>, val |-> Str(<<"a">>)]>>
  /\ call.arg = Str(<<"a">>)
  /\ result = Returns(Undefined, 0, 0)

\* normalize, convert and ignoreCase are all set; normalize trims strings, the
\* converter is the default one or a custom one that does not throw
AllStepsSet(options) ==
  /\ options.given
  /\ options.normalize = "trim"
  /\ options.convert
  /\ options.ignoreCase
  /\ options.converter \in {"none", "constant"} \union CaseConverters

\* what the configured conversion to the expected type string makes of v
ConvertedToString(options, v) ==
  IF options.converter = "none"
  THEN IF v.t = "string" THEN v ELSE Str(StringOf(v).s)
  ELSE CallConverter(options.converter, v).v

\* lower(v): strings are lower-cased, everything else is left as it is
Lowered(v) == IF v.t = "string" THEN Str(ToLowerCase(v.s)) ELSE v

\* lower(conv(normalize(v)))
NormalizedConvertedLowered(options, v) ==
  Lowered(ConvertedToString(options, TrimNormalize(v)))

\* C23: for a string candidate with normalize, convert and ignoreCase all set, the
\* predicate's result is lower(conv(normalize(candidate))) ===
\* lower(conv(normalize(input))): the converter is handed the normalized operands
\* and the case is folded on the converter's output, on both operands; normalize
\* is called twice and a custom converter twice.
C23_NormalizeConvertFold ==
  (/\ call.op = "equalFn" /\ AllStepsSet(call.options)
   /\ call.left.t = "string"
   /\ StringOf(call.arg).thrown = <<>>) =>
    /\ result.kind = "value"
    /\ result.val =
         Bool(/\ NormalizedConvertedLowered(call.options, call.left)
                   = NormalizedConvertedLowered(call.options, call.arg)
              /\ NormalizedConvertedLowered(call.options, call.left).t # "NaN")
    /\ result.nc = 2
    /\ result.cc = IF call.options.converter = "none" THEN 0 ELSE 2

\* 'A' and ' a' with a trimming normalize and an upper-casing converter: equal
\* only because the input is trimmed before it is converted and folded after
C23_Witness ==
  /\ call.op = "equalFn" /\ AllStepsSet(call.options)
  /\ call.options.converter = "upper"
  /\ call.left = Str(<<"A">>) /\ call.arg = Str(<<" ", "a">>)
  /\ result = Returns(Bool(TRUE), 2, 2)

\* the string '1' and the number 1 with the default converter
C23_WitnessDefaultConverter ==
  /\ call.op = "equalFn" /\ AllStepsSet(call.options)
  /\ call.options.converter = "none"
  /\ call.left = Str(<<"1">>) /\ call.arg = Num(1)
  /\ result = Returns(Bool(TRUE), 2, 0)

\* convert is set with the default converter, and normalize, if any, is one of the
\* hooks that do not throw by themselves
DefaultConversionAfterNormalize(options) ==
  /\ options.given /\ options.convert /\ options.converter = "none"
  /\ options.normalize \in {"none", "trim"} \union TypeChangingNormalizers

\* normalize(v) under the options of the call
NormalizedOperand(v) == normalizeOf(call.options, v)

\* the outcome of the comparison when the default conversion and the case folding
\* are driven by the given expected type
ComparedAs(expectedType, a1, b1) ==
  LET a2 == defaultConverter(a1, expectedType).v
      b2 == defaultConverter(b1, expectedType).v
  IN  IF expectedType = "string" /\ call.options.ignoreCase
      THEN StrictEquals(Lowered(a2), Lowered(b2))
      ELSE StrictEquals(a2, b2)

\* normalize and the default conversion are defined on both operands
ConversionDefined(expectedType) ==
  /\ NormalizedOperand(call.left).thrown = <<>>
  /\ NormalizedOperand(call.arg).thrown = <<>>
  /\ defaultConverter(NormalizedOperand(call.left).v, expectedType).thrown = <<>>
  /\ defaultConverter(NormalizedOperand(call.arg).v, expectedType).thrown = <<>>

\* the expected type read off a value: 'string' for a string, else 'number'
TypeNameOf(v) == IF TypeOf(v) = "string" THEN "string" ELSE "number"

\* C24: the expected type that drives the default conversion and the case folding
\* is taken from the candidate after normalize: 'string' if normalize(candidate)
\* is a string, else 'number', also when normalize changes the candidate's type.
C24_ExpectedTypeFromNormalizedCandidate ==
  (/\ call.op = "equalFn" /\ DefaultConversionAfterNormalize(call.options)
   /\ ConversionDefined(TypeNameOf(NormalizedOperand(call.left).v))) =>
    /\ result.kind = "value"
    /\ result.val = Bool(ComparedAs(TypeNameOf(NormalizedOperand(call.left).v),
                                    NormalizedOperand(call.left).v,
                                    NormalizedOperand(call.arg).v))

\* what the code does: the expected type is taken from the candidate as it is
\* passed, before normalize is applied
C24_ExpectedTypeFromRawCandidate ==
  (/\ call.op = "equalFn" /\ DefaultConversionAfterNormalize(call.options)
   /\ ConversionDefined(TypeNameOf(call.left))) =>
    /\ result.kind = "value"
    /\ result.val = Bool(ComparedAs(TypeNameOf(call.left),
                                    NormalizedOperand(call.left).v,
                                    NormalizedOperand(call.arg).v))

\* the number 1 normalized to '1' and the input ' 1 ': equal, as numbers
C24_WitnessNumberToString ==
  /\ call.op = "equalFn" /\ DefaultConversionAfterNormalize(call.options)
  /\ call.options.normalize = "stringify"
  /\ call.left = Num(1) /\ call.arg = Str(<<" ", "1", " ">>)
  /\ result.val = Bool(TRUE)

\* the string 'a' normalized to NaN on both sides: equal, as the strings 'NaN'
C24_WitnessStringToNumber ==
  /\ call.op = "equalFn" /\ DefaultConversionAfterNormalize(call.options)
  /\ call.options.normalize = "numberify"
  /\ call.left = Str(<<"a">>) /\ call.arg = Str(<<"a">>)
  /\ result.val = Bool(TRUE)

\* the options of the call with ignoreCase switched
IgnoreCaseSwitched == [call.options EXCEPT !.ignoreCase = ~@]

\* C25: ignoreCase has no effect on numeric comparisons: for every numeric
\* candidate, every input and every setting of normalize, convert and converter,
\* the predicate built with ignoreCase set has the same outcome as the predicate
\* built without it.
C25_IgnoreCaseNotOnNumbers ==
  (call.op = "equalFn" /\ call.options.given /\ TypeOf(call.left) = "number") =>
    SameOutcome(result, OutcomeOfPredicate(IgnoreCaseSwitched))

\* the same for every candidate that is not a string (null, undefined, booleans,
\* objects), which the predicate also compares as a number
C25_IgnoreCaseOnlyOnStringCandidates ==
  (call.op = "equalFn" /\ call.options.given /\ TypeOf(call.left) # "string") =>
    SameOutcome(result, OutcomeOfPredicate(IgnoreCaseSwitched))

\* the candidate 1 converted to 'A' and the input 'a' differ although ignoreCase is set
C25_Witness ==
  /\ call.op = "equalFn" /\ call.options.given
  /\ call.options.ignoreCase /\ call.options.convert /\ call.options.converter = "upperA"
  /\ call.left = Num(1) /\ call.arg = Str(<<"a">>)
  /\ result.kind = "value" /\ result.val = Bool(FALSE)

\* a string candidate, for contrast: 'A' and 'a' match once ignoreCase is set
C25_WitnessStringCandidate ==
  /\ call.op = "equalFn" /\ call.options.given
  /\ call.options.ignoreCase /\ ~call.options.convert
  /\ call.left = Str(<<"A">>) /\ call.arg = Str(<<"a">>)
  /\ result.val = Bool(TRUE)
  /\ OutcomeOfPredicate(IgnoreCaseSwitched).val = Bool(FALSE)

\* the hooks of the bundle, if any, return for every argument
HooksNeverThrow(options) ==
  options.normalize \in {"none", "trim"} /\ options.converter \in {"none", "constant"}

WrapperOps == {"isEnumValue", "toEnumValue", "toEnumKeys", "isEnumKey", "toEnumKey"}

\* C26: the predicate never throws on its own: for every options bundle whose
\* normalize and converter, if any, do not throw, the predicate returns a boolean
\* for every pair of operands of any runtime type, objects without a string form
\* included, also with convert and ignoreCase set.
C26_PredicateNeverThrows ==
  (call.op = "equalFn" /\ HooksNeverThrow(call.options)) =>
    /\ result.kind = "value"
    /\ result.val \in {Bool(TRUE), Bool(FALSE)}

\* where the predicate does throw by itself: a string candidate, convert set with
\* the default converter, and an input that has no string form
C26_PredicateThrowsOnlyWithoutStringForm ==
  (call.op = "equalFn" /\ HooksNeverThrow(call.options) /\ result.kind # "value") =>
    /\ result = Throws(TypeErrorMessage, IF HasNormalize(call.options) THEN 2 ELSE 0, 0)
    /\ DefaultConversionAfterNormalize(call.options)
    /\ TypeOf(call.left) = "string"
    /\ call.arg.t = "bareobject"

\* the same for the wrappers on a valid mapping: beside 'not unique' they end with
\* the TypeError of String(value) for an input without string form and convert set,
\* in isEnumKey and toEnumKey before any scan
C26_WrappersThrowOnlyWithoutStringForm ==
  (/\ call.op \in WrapperOps /\ ValidMapping /\ HooksNeverThrow(call.options)
   /\ result.kind = "throw" /\ result.thrown \notin NotUniqueMessages) =>
    /\ result.thrown = TypeErrorMessage
    /\ call.options.given /\ call.options.convert
    /\ call.arg.t = "bareobject"

\* equalFn({convert: true})('a', Object.create(null)) throws a TypeError
C26_WitnessPredicateThrows ==
  /\ call.op = "equalFn" /\ DefaultConversionOnly(call.options)
  /\ call.left = Str(<<"a">>) /\ call.arg = BareObject(1)
  /\ result = Throws(TypeErrorMessage, 0, 0)

\* isEnumValue({a: 'a'}, Object.create(null), {convert: true}) throws a TypeError
C26_WitnessWrapperThrows ==
  /\ call.op = "isEnumValue" /\ ValidMapping /\ DefaultConversionOnly(call.options)
  /\ enumObj.own = <<[key |-> <<"a">>, val |-> Str(<<"a">>)]>>
  /\ call.arg = BareObject(1)
  /\ result = Throws(TypeErrorMessage, 0, 0)

\* without convert an object without string form is compared as it is: false
C26_WitnessNoConversion ==
  /\ call.op = "equalFn" /\ ~call.options.given
  /\ call.left = Str(<<"a">>) /\ call.arg = BareObject(1)
  /\ result = Returns(Bool(FALSE), 0, 0)

\* v is a string or a number (NaN included)
IsStringOrNumber(v) == TypeOf(v) \in {"string", "number"}

\* the predicate is built with the default converter, normalize returns on both
\* operands, and after normalize one operand is null or undefined and the other a
\* string or a number
NullishAgainstStringOrNumber ==
  /\ call.op = "equalFn"
  /\ call.options.converter = "none"
  /\ NormalizedOperand(call.left).thrown = <<>>
  /\ NormalizedOperand(call.arg).thrown = <<>>
  /\ \/ /\ IsNullish(NormalizedOperand(call.left).v)
        /\ IsStringOrNumber(NormalizedOperand(call.arg).v)
     \/ /\ IsStringOrNumber(NormalizedOperand(call.left).v)
        /\ IsNullish(NormalizedOperand(call.arg).v)

\* C27: null and undefined match nothing but each other: under every combination
\* of ignoreCase and convert with the default converter, an operand that is null
\* or undefined after normalize is never reported equal to an operand that is a
\* string or a number after normalize.
C27_NullishMatchesOnlyNullish ==
  NullishAgainstStringOrNumber => result = Returns(Bool(FALSE), result.nc, 0)

\* what the code guarantees: the statement holds when convert is not set
C27_NullishWithoutConvert ==
  (NullishAgainstStringOrNumber /\ ~(call.options.given /\ call.options.convert)) =>
    result = Returns(Bool(FALSE), result.nc, 0)

\* with convert set the only matches are a string candidate that spells the input
\* (String(undefined) is 'undefined'), and a candidate that is null or undefined
\* against a string that is no numeral (both become undefined as numbers)
C27_NullishMatchesWithConvert ==
  (NullishAgainstStringOrNumber /\ PredicateMatched) =>
    /\ call.options.given /\ call.options.convert
    /\ \/ /\ TypeOf(call.left) = "string"
          /\ IsNullish(NormalizedOperand(call.arg).v)
          /\ SameIgnoringCase(NormalizedOperand(call.left).v.s,
                              StringOf(NormalizedOperand(call.arg).v).s)
       \/ /\ IsNullish(call.left)
          /\ TypeOf(NormalizedOperand(call.arg).v) = "string"
          /\ toNumber(NormalizedOperand(call.arg).v) = Undefined

\* equalFn({convert: true})('undefined', undefined) is true
C27_WitnessNameOfUndefined ==
  /\ call.op = "equalFn" /\ DefaultConversionOnly(call.options)
  /\ call.left = Str(<<"u", "n", "d", "e", "f", "i", "n", "e", "d">>)
  /\ call.arg = Undefined
  /\ result = Returns(Bool(TRUE), 0, 0)

\* equalFn({convert: true})(null, 'a') is true
C27_WitnessNullCandidate ==
  /\ call.op = "equalFn" /\ DefaultConversionOnly(call.options)
  /\ call.left = Null /\ call.arg = Str(<<"a">>)
  /\ result = Returns(Bool(TRUE), 0, 0)

\* equalFn()('undefined', undefined) is false
C27_WitnessWithoutConvert ==
  /\ call.op = "equalFn" /\ ~call.options.given
  /\ call.left = Str(<<"u", "n", "d", "e", "f", "i", "n", "e", "d">>)
  /\ call.arg = Undefined
  /\ result = Returns(Bool(FALSE), 0, 0)

\* isEnumValue was called on a valid mapping with hooks that do not throw
IsEnumValueCase ==
  call.op = "isEnumValue" /\ ValidMapping /\ HooksDoNotThrow(call.options)

\* toEnumKeys and toEnumValue on the mapping, the value and the options of the call
KeysOfCall == toEnumKeys(enumObj, call.arg, call.options)
ValueOfCall == toEnumValue(enumObj, call.arg, call.options)

\* toEnumKeys returns a list that is not empty
KeysFound == KeysOfCall.kind = "list" /\ Len(KeysOfCall.list) > 0

\* toEnumValue returns a value, or throws 'not unique'
ValueFoundOrNotUnique ==
  \/ ValueOfCall.kind = "value" /\ ValueOfCall.val # Undefined
  \/ ValueOfCall.kind = "throw" /\ ValueOfCall.thrown = ValueByValueMessage

\* C28: for every valid mapping, value and options with hooks that do not throw,
\* isEnumValue is true iff toEnumKeys is not empty, i.e. iff toEnumValue returns
\* a value or throws 'not unique'; isEnumValue itself never throws 'not unique'.
C28_IsEnumValueIsExistence ==
  IsEnumValueCase =>
    /\ (result = Returns(Bool(TRUE), result.nc, result.cc)) <=> KeysFound
    /\ KeysFound <=> ValueFoundOrNotUnique
    /\ result.kind = "value" \/ result.thrown \notin NotUniqueMessages
    /\ result.kind = "value" => result.val \in {Bool(TRUE), Bool(FALSE)}

\* a constant converter makes both entries match: isEnumValue is true and
\* toEnumValue throws 'Enum values are not unique'
C28_Witness ==
  /\ IsEnumValueCase
  /\ call.options.convert /\ call.options.converter = "constant"
  /\ Len(enumObj.own) = 2
  /\ enumObj.own[1].val # enumObj.own[2].val
  /\ result.kind = "value" /\ result.val = Bool(TRUE)
  /\ Len(KeysOfCall.list) = 2
  /\ ValueOfCall.kind = "throw" /\ ValueOfCall.thrown = ValueByValueMessage

\* no entry matches: false, the empty list, undefined
C28_WitnessNoMatch ==
  /\ IsEnumValueCase /\ Len(enumObj.own) = 2 /\ ~IsNullish(call.arg)
  /\ result.kind = "value" /\ result.val = Bool(FALSE)
  /\ KeysOfCall = ReturnsList(<<>>, KeysOfCall.nc, KeysOfCall.cc)
  /\ ValueOfCall.kind = "value" /\ ValueOfCall.val = Undefined

\* a step in which a call of an exported function begins, or its outcome is taken
CallBeginsOrEnds == call' # call

\* C29: no operation writes to its arguments: over any call of any exported
\* function, returning or throwing, and over any sequence of calls, the enum
\* object keeps its own keys, in their order, with their values, and the options
\* bundle its fields; no state is kept between invocations, so the outcome of a
\* call is the outcome of the same call on the same arguments whatever came before.
C29_NoWriteToArguments ==
  /\ [][CallBeginsOrEnds => enumObj' = enumObj]_vars
  /\ [][(~Idle /\ call' = call) => UNCHANGED <<enumObj, result>>]_vars
  /\ [](~Idle => result = OutcomeOfCall(call.op, call.options))

\* toEnumValue has thrown 'not unique' on a mapping of two entries, which are
\* still there, after earlier calls and changes of the mapping
C29_Witness ==
  /\ call.op = "toEnumValue"
  /\ result.kind = "throw" /\ result.thrown = ValueByValueMessage
  /\ Len(enumObj.own) = 2
  /\ call.options.given /\ call.options.normalize = "trim" /\ call.options.ignoreCase
  /\ result = toEnumValue(enumObj, call.arg, call.options)

\* a call that returned normally
C29_WitnessReturned ==
  /\ call.op = "toEnumKeys"
  /\ result.kind = "list" /\ Len(result.list) = 2
  /\ Len(enumObj.own) = 2

\* the boolean wrapper answered true
WrapperSaidTrue(op) ==
  call.op = op /\ ValidMapping /\ result.kind = "value" /\ result.val = Bool(TRUE)

\* v itself is strictly equal to a stored value / k itself is an own key
IsStoredValue(v) == \E i \in 1..Len(enumObj.own) : StrictEquals(enumObj.own[i].val, v)
IsOwnKey(k) == k.t = "string" /\ HasOwn(enumObj, k.s)

\* C30: type-guard soundness: for every valid mapping and every options bundle,
\* when isEnumValue returns true the value itself is strictly equal to one of the
\* stored values, and when isEnumKey returns true the key itself is one of the
\* own keys, as the return types 'value is T[keyof T]' and 'key is keyof T' assert.
C30_TypeGuardSound ==
  /\ WrapperSaidTrue("isEnumValue") => IsStoredValue(call.arg)
  /\ WrapperSaidTrue("isEnumKey") => IsOwnKey(call.arg)

\* the guards are sound when the options loosen nothing
C30_SoundUnderDefaultOptions ==
  DefaultOptions(call.options) => C30_TypeGuardSound

\* isEnumValue({a: 1}, '1', {convert: true}) is true, and '1' is no stored value
C30_WitnessConvertedValue ==
  /\ WrapperSaidTrue("isEnumValue") /\ DefaultConversionOnly(call.options)
  /\ enumObj.own = <<[key |-> <<"a">>, val |-> Num(1)]>>
  /\ call.arg = Str(<<"1">>)
  /\ ~IsStoredValue(call.arg)

\* isEnumKey({a: 1}, 'A', {ignoreCase: true}) is true, and 'A' is no own key
C30_WitnessFoldedKey ==
  /\ WrapperSaidTrue("isEnumKey") /\ IgnoreCaseOnly(call.options)
  /\ enumObj.own = <<[key |-> <<"a">>, val |-> Num(1)]>>
  /\ call.arg = Str(<<"A">>)
  /\ ~IsOwnKey(call.arg)

\* isEnumKey({1: 'a'}, 1, {convert: true}) is true, and the number 1 is no key
C30_WitnessNumberKey ==
  /\ WrapperSaidTrue("isEnumKey") /\ DefaultConversionOnly(call.options)
  /\ enumObj.own = <<[key |-> <<"1">>, val |-> Str(<<"a">>)]>>
  /\ call.arg = Num(1)
  /\ ~IsOwnKey(call.arg)

\* with default options a true answer is for a stored value
C30_WitnessSound ==
  /\ WrapperSaidTrue("isEnumValue") /\ ~call.options.given
  /\ Len(enumObj.own) = 2
  /\ IsStoredValue(call.arg)

====
